---------------------------- MODULE Spec2Model ----------------------------
(***************************************************************************)
(* Startup, import and shutdown of the node: src/src/init.cpp; the       *)
(* signal combiner and the block subsidy of src/src/test/main_tests.cpp.  *)
(*                                                                         *)
(* Spec       the lifecycle: AppInitMain (steps 4a..12), ThreadImport, and *)
(*            CoreInterrupt and CoreShutdown called by up to two threads.  *)
(* SpecFair   the lifecycle on an empty data directory, with weak fairness *)
(*            of the main and the import thread.                           *)
(* SpecParam  AppInitParameterInteraction on every combination of inputs.  *)
(* SpecCache  the cache size calculation of AppInitMain, step 7.           *)
(* SpecBind   the binding of the listeners in AppInitMain, step 6.         *)
(* SpecImport the import worker over several processes on one data        *)
(*            directory.                                                   *)
(* SpecSignal a boolean signal combined by BooleanAndAllReturnValues.      *)
(* SpecSubsidy the loop of subsidy_limit_test over GetBlockSubsidy.        *)
(* SpecScan   the block-file scan of ThreadImport beside another worker.   *)
(* SpecRules  InitParameterInteraction on every set of user arguments.     *)
(* SpecLoad   the lifecycle of one caller, with weak fairness of           *)
(*            AppInitMain.                                                 *)
(* SpecStores the cache sizes and the stores opened with them.             *)
(***************************************************************************)
EXTENDS Integers, Sequences, FiniteSets, TLC

(***************************************************************************)
(* Bounds of the model.                                                    *)
(***************************************************************************)
\* block files blk00000.dat .. blk0000<MaxFile-1>.dat may exist
MaxFile == 3
\* how many options of the command line differ from their defaults in one run
MaxOptions == 1
\* how many files -loadblock names
MaxLoadBlock == 2

VARIABLES
    \* ---- inputs of the run -------------------------------------------------
    args,               \* the command line: -reindex, -reindex-chainstate, -txindex, ...
    disk0,              \* the stores as the process found them
    files0,             \* the block and undo files as the process found them
    faulted,            \* an external collaborator has reported a fault (history)
    \* ---- the data directory ------------------------------------------------
    disk,               \* block-index store and chain-state store as persisted
    blkFiles,           \* indices of the blk?????.dat files in blocks/
    revFiles,           \* indices of the rev?????.dat files in blocks/
    \* ---- globals of init.cpp / validation ----------------------------------
    fReindex,
    fTxIndex,
    fHavePruned,
    nPreviousVersion,   \* pcoinsdbview->nPreviousVersion
    mapBlockIndex,      \* "empty" | "ok" | "wrongGenesis"
    chainTip,           \* chainActive.Tip(): "none" | "ok" | "future"
    ptr,                \* the chain-state objects: "null" | "live" | "dangling"
    viewBase,           \* what each view's cache reads through: "none" | "catcher"
    everBuilt,          \* objects constructed at least once (history)
    g_connman,          \* "null" | "created" | "started" | "interrupted" | "stopped"
    fFeeEstimatesInitialized,
    vpwallets,          \* TRUE when a wallet is loaded
    fRequestShutdown,   \* ShutdownRequested()
    fHaveGenesis,
    genesisWaitConnected, \* BlockNotifyGenesisWait connected to NotifyBlockTip
    fDumpMempoolLater,
    rpcWarmup,          \* "off" | "warmup" | "finished"
    procState,          \* "running" | "aborted" (abort()) | "crashed" (undefined behaviour)
    \* ---- AppInitMain (main thread) -----------------------------------------
    pcMain,
    ret,                \* "none" | "true" | "false" | "error" (InitError)
    fLoaded,
    fReset,
    strLoadError,
    upgradeOnceOnly,
    upgradeCalls,       \* calls of UpgradeBlockIndex (history)
    attempts,           \* iterations of while (!fLoaded) started (history)
    creations,          \* passes through the label loadblockindex (history)
    questions,          \* calls of ThreadSafeQuestion (history)
    answer,             \* the last answer: "none" | "yes" | "no"
    \* ---- ThreadImport ------------------------------------------------------
    pcImport,
    nFile,
    visited,            \* block files handed to LoadExternalBlockFile, in order
    openFailed,         \* GetBlockFile returned NULL during the scan (history)
    bootstrapDat,       \* $DATADIR/bootstrap.dat exists
    imported,           \* the sources ThreadImport tried to open, in order: [src, id, ok]
    lookup,             \* the last GetCoin through a view
    \* ---- CoreShutdown ------------------------------------------------------
    callers,            \* the threads that have yet to call CoreShutdown in this run
    pcSh,               \* per calling thread: "idle" | "interrupted" | a step of CoreShutdown
    callId,             \* per thread: number of the call it is in
    nCalls,             \* calls of CoreShutdown so far
    csShutdown,         \* owner of cs_Shutdown, or "none"
    overlapped,         \* two calls were in CoreShutdown at the same time (history)
    partiallyEraseDatadirOnShutdown,
    fullyEraseDatadirOnShutdown,
    erased,             \* entries of the data directory that CoreShutdown has removed
    log,                \* teardown steps executed, in order: [call, ev]
    \* ---- AppInitParameterInteraction ---------------------------------------
    par,                \* its inputs and results
    \* ---- cache size calculation --------------------------------------------
    cache,              \* its inputs and results
    \* ---- AppInitMain step 6: the listeners ---------------------------------
    net,                \* its inputs and results
    \* ---- test/main_tests.cpp -----------------------------------------------
    signal,             \* the boolean signal Test: its slots and its last result
    subsidy,            \* the loop of subsidy_limit_test: height and running total
    \* ---- the reindex scan of ThreadImport, statement by statement -----------
    scan,               \* the worker's position, the holder of cs_main, another worker
    \* ---- InitParameterInteraction ------------------------------------------
    rules               \* the arguments before and after the rules

inputVars  == <<args, disk0, files0, faulted>>
diskVars   == <<disk, blkFiles, revFiles>>
chainVars  == <<fReindex, fTxIndex, fHavePruned, nPreviousVersion, mapBlockIndex, chainTip>>
objVars    == <<ptr, viewBase, everBuilt>>
svcVars    == <<g_connman, fFeeEstimatesInitialized, vpwallets, rpcWarmup>>
sigVars    == <<fRequestShutdown, fHaveGenesis, genesisWaitConnected, fDumpMempoolLater>>
loopVars   == <<fLoaded, fReset, strLoadError, upgradeOnceOnly, upgradeCalls, attempts, creations,
                questions, answer>>
mainVars   == <<pcMain, ret>>
importVars == <<pcImport, nFile, visited, openFailed, bootstrapDat, imported, lookup>>
eraseVars  == <<partiallyEraseDatadirOnShutdown, fullyEraseDatadirOnShutdown, erased>>
shutVars   == <<callers, pcSh, callId, nCalls, csShutdown, overlapped, log, eraseVars>>

pureVars   == <<par, cache, net, signal, subsidy, scan, rules>>

lifeVars == <<inputVars, diskVars, chainVars, objVars, svcVars, sigVars, loopVars,
              mainVars, importVars, shutVars, procState>>
vars == <<lifeVars, pureVars>>

(***************************************************************************)
(* The chain-state objects of init.cpp.                                    *)
(***************************************************************************)
MainObjs == {"pcoinsTip", "pcoinsdbview", "pcoinscatcher", "pblocktree"}
WitObjs  == {"ppow2witdbview", "ppow2witcatcher", "ppow2witTip"}
Objs     == MainObjs \cup WitObjs
Views    == {"main", "witness"}
TipOf(v) == IF v = "main" THEN "pcoinsTip" ELSE "ppow2witTip"

\* delete p: a live object is freed and the pointer keeps its value
Deleted(p, S) == [o \in Objs |-> IF o \in S /\ p[o] = "live" THEN "dangling" ELSE p[o]]
\* delete p; p = NULL
Released(p, S) == [o \in Objs |-> IF o \in S THEN "null" ELSE p[o]]
Built(p, S) == [o \in Objs |-> IF o \in S THEN "live" ELSE p[o]]
AnyDangling(p, S) == \E o \in S : p[o] = "dangling"

\* the threshold of the schema upgrade: nPreviousVersion < 1
UpgradeVersion == 1


(***************************************************************************)
(* The data directory.  index: the block-index store ("none" when empty);  *)
(* txindex, havePruned: its flags; coins: the best block of the            *)
(* chain-state store ("none", "ok", or "future": time-stamped more than    *)
(* two hours ahead); version: the schema version of the chain-state store. *)
(***************************************************************************)
EmptyDisk == [index |-> "none", txindex |-> FALSE, havePruned |-> FALSE,
              coins |-> "none", version |-> UpgradeVersion]

DiskScenarios ==
    {EmptyDisk}
    \cup {[index |-> "ok", txindex |-> t, havePruned |-> FALSE, coins |-> "ok",
           version |-> v] : t \in BOOLEAN, v \in {UpgradeVersion - 1, UpgradeVersion}}
    \cup {[index |-> "ok", txindex |-> FALSE, havePruned |-> TRUE, coins |-> "ok",
           version |-> UpgradeVersion],
          [index |-> "ok", txindex |-> FALSE, havePruned |-> FALSE, coins |-> "future",
           version |-> UpgradeVersion],
          [index |-> "ok", txindex |-> FALSE, havePruned |-> FALSE, coins |-> "none",
           version |-> UpgradeVersion],
          [index |-> "wrongGenesis", txindex |-> FALSE, havePruned |-> FALSE,
           coins |-> "ok", version |-> UpgradeVersion]}

\* CBlockTreeDB(nCache, false, fWipe): a wiped block-index store is empty
WipeIndex(d) == [d EXCEPT !.index = "none", !.txindex = FALSE, !.havePruned = FALSE]
\* CCoinsViewDB(nCache, false, fWipe): a wiped chain-state store is empty and current
WipeCoins(d) == [d EXCEPT !.coins = "none", !.version = UpgradeVersion]

(***************************************************************************)
(* CleanupBlockRevFiles: every rev file is removed in the first loop; the  *)
(* second loop walks mapBlockFiles in key order with nContigCounter and    *)
(* removes each file whose index is not the counter.  The keys are the     *)
(* five digits of the name, so their order is the order of the indices.    *)
(***************************************************************************)
\* a walk that never advances past a gap: it keeps every file from the counter on
WalkBlockFiles_KeepsPastGap(todo, nContigCounter, kept) ==
    {item \in todo : item >= nContigCounter}

RECURSIVE WalkBlockFiles(_, _, _)
WalkBlockFiles(todo, nContigCounter, kept) ==
    IF todo = {} THEN kept
    ELSE LET item == CHOOSE x \in todo : \A y \in todo : x <= y
         IN  IF item = nContigCounter
             THEN WalkBlockFiles(todo \ {item}, nContigCounter + 1, kept \cup {item})
             ELSE WalkBlockFiles(todo \ {item}, nContigCounter, kept)

CleanupBlockRevFiles(files) ==
    [blk |-> WalkBlockFiles(files.blk, 0, {}), rev |-> {}]

(***************************************************************************)
(* AppInitMain.                                                            *)
(***************************************************************************)
MainAt(p) == procState = "running" /\ pcMain = p

\* return false / return InitError(...)
Return(r) == pcMain' = "returned" /\ ret' = r

\* Step 4a .. 5: data directory lock, RPC server in warm-up mode, wallet verify
AppInitMain_Step4a ==
    /\ MainAt("step4a")
    /\ \E ok \in BOOLEAN :
         IF ok
         THEN /\ pcMain' = "step6"
              /\ ret' = ret
              /\ rpcWarmup' = "warmup"
              /\ faulted' = faulted
         ELSE /\ Return("false")
              /\ rpcWarmup' = rpcWarmup
              /\ faulted' = TRUE
    /\ UNCHANGED <<args, disk0, files0, diskVars, chainVars, objVars, g_connman,
                   fFeeEstimatesInitialized, vpwallets, sigVars, loopVars, importVars,
                   shutVars, procState, pureVars>>

\* Step 6: g_connman is created; the listeners are bound
AppInitMain_Step6 ==
    /\ MainAt("step6")
    /\ g_connman' = "created"
    /\ \E ok \in BOOLEAN :
         IF ok
         THEN pcMain' = "step7" /\ ret' = ret /\ faulted' = faulted
         ELSE Return("error") /\ faulted' = TRUE
    /\ UNCHANGED <<args, disk0, files0, diskVars, chainVars, objVars, fFeeEstimatesInitialized,
                   vpwallets, rpcWarmup, sigVars, loopVars, importVars, shutVars,
                   procState, pureVars>>

\* Step 7: fReindex = GetBoolArg("-reindex", false)
AppInitMain_Step7 ==
    /\ MainAt("step7")
    /\ fReindex' = args.reindex
    /\ pcMain' = "while"
    /\ UNCHANGED <<inputVars, diskVars, fTxIndex, fHavePruned, nPreviousVersion,
                   mapBlockIndex, chainTip, objVars, svcVars, sigVars, loopVars, ret,
                   importVars, shutVars, procState, pureVars>>

\* the attempt ends without fLoaded: break, or the catch of std::exception
Break(err) == pcMain' = "failed" /\ strLoadError' = err

\* the locals of the loop body go out of scope
LeaveLoop == fReset' = FALSE /\ strLoadError' = ""

\* while (!fLoaded) { bool fReset = fReindex; ... UnloadBlockIndex();
LoadLoop_While ==
    /\ MainAt("while")
    /\ IF fLoaded
       THEN /\ pcMain' = "afterLoad"
            /\ LeaveLoop
            /\ UNCHANGED <<attempts, mapBlockIndex, chainTip, fHavePruned>>
       ELSE /\ pcMain' = "loadblockindex"
            /\ fReset' = fReindex
            /\ strLoadError' = ""
            /\ attempts' = attempts + 1
            /\ mapBlockIndex' = "empty"
            /\ chainTip' = "none"
            /\ fHavePruned' = FALSE
    /\ UNCHANGED <<inputVars, diskVars, fReindex, fTxIndex, nPreviousVersion, objVars,
                   svcVars, sigVars, fLoaded, upgradeOnceOnly, upgradeCalls, creations, questions,
                   answer, ret, importVars, shutVars, procState, pureVars>>

\* loadblockindex: delete pcoinsTip; delete pcoinsdbview; delete pcoinscatcher;
\* delete pblocktree;  deleting an object twice is undefined
LoadLoop_DeleteMain ==
    /\ MainAt("loadblockindex")
    /\ creations' = creations + 1
    /\ ptr' = Deleted(ptr, MainObjs)
    /\ \E crash \in (IF AnyDangling(ptr, MainObjs) THEN BOOLEAN ELSE {FALSE}) :
         IF crash
         THEN procState' = "crashed" /\ pcMain' = pcMain
         ELSE procState' = procState /\ pcMain' = "newMain"
    /\ UNCHANGED <<inputVars, diskVars, chainVars, viewBase, everBuilt, svcVars, sigVars,
                   fLoaded, fReset, strLoadError, upgradeOnceOnly, upgradeCalls, attempts, questions,
                   answer, ret, importVars, shutVars, pureVars>>

\* pblocktree = new CBlockTreeDB(.., fReindex); pcoinsdbview = new CCoinsViewDB(..,
\* fReindex || fReindexChainState); pcoinscatcher = new CCoinsViewErrorCatcher(
\* pcoinsdbview); pcoinsTip = new CCoinsViewCache(pcoinscatcher)
LoadLoop_NewMain ==
    /\ MainAt("newMain")
    /\ \E outcome \in {"ok", "throwTree", "throwCoins"} :
         LET dTree  == IF fReindex THEN WipeIndex(disk) ELSE disk
             dCoins == IF fReindex \/ args.reindexChainState THEN WipeCoins(dTree)
                       ELSE dTree
         IN  CASE outcome = "throwTree" ->
                    /\ Break("open")
                    /\ faulted' = TRUE
                    /\ UNCHANGED <<disk, ptr, viewBase, everBuilt, nPreviousVersion>>
               [] outcome = "throwCoins" ->
                    /\ Break("open")
                    /\ faulted' = TRUE
                    /\ disk' = dTree
                    /\ ptr' = Built(ptr, {"pblocktree"})
                    /\ everBuilt' = everBuilt \cup {"pblocktree"}
                    /\ UNCHANGED <<viewBase, nPreviousVersion>>
               [] outcome = "ok" ->
                    /\ pcMain' = "delWit"
                    /\ disk' = dCoins
                    /\ nPreviousVersion' = dCoins.version
                    /\ ptr' = Built(ptr, MainObjs)
                    /\ viewBase' = [viewBase EXCEPT !["main"] = "catcher"]
                    /\ everBuilt' = everBuilt \cup MainObjs
                    /\ UNCHANGED <<strLoadError, faulted>>
    /\ UNCHANGED <<args, disk0, files0, blkFiles, revFiles, fReindex, fTxIndex, fHavePruned,
                   mapBlockIndex, chainTip, svcVars, sigVars, fLoaded, fReset,
                   upgradeOnceOnly, upgradeCalls, attempts, creations, questions, answer, ret,
                   importVars, shutVars, procState, pureVars>>

\* delete ppow2witdbview; delete ppow2witcatcher; ppow2witTip = nullptr
LoadLoop_DeleteWit ==
    /\ MainAt("delWit")
    /\ ptr' = Released(Deleted(ptr, {"ppow2witdbview", "ppow2witcatcher"}),
                       {"ppow2witTip"})
    /\ \E crash \in (IF AnyDangling(ptr, WitObjs) THEN BOOLEAN ELSE {FALSE}) :
         IF crash
         THEN procState' = "crashed" /\ pcMain' = pcMain
         ELSE procState' = procState /\ pcMain' = "newWit"
    /\ UNCHANGED <<inputVars, diskVars, chainVars, viewBase, everBuilt, svcVars, sigVars,
                   loopVars, ret, importVars, shutVars, pureVars>>

\* ppow2witdbview = new CWitViewDB(..); ppow2witcatcher = new CCoinsViewErrorCatcher(
\* ppow2witdbview); ppow2witTip = shared_ptr(new CCoinsViewCache(ppow2witcatcher));
\* pcoinsTip->SetSiblingView(ppow2witTip)
LoadLoop_NewWit ==
    /\ MainAt("newWit")
    /\ \E outcome \in {"ok", "throw"} :
         IF outcome = "throw"
         THEN /\ Break("open")
              /\ faulted' = TRUE
              /\ UNCHANGED <<ptr, viewBase, everBuilt>>
         ELSE /\ pcMain' = "reindexOrUpgrade"
              /\ ptr' = Built(ptr, WitObjs)
              /\ viewBase' = [viewBase EXCEPT !["witness"] = "catcher"]
              /\ everBuilt' = everBuilt \cup WitObjs
              /\ UNCHANGED <<strLoadError, faulted>>
    /\ UNCHANGED <<args, disk0, files0, diskVars, chainVars, svcVars, sigVars, fLoaded, fReset,
                   upgradeOnceOnly, upgradeCalls, attempts, creations, questions, answer, ret,
                   importVars, shutVars, procState, pureVars>>

\* if (fReindex) { WriteReindexing(true); if (fPruneMode) CleanupBlockRevFiles(); }
\* else if (!pcoinsdbview->Upgrade()) break;
LoadLoop_ReindexOrUpgrade ==
    /\ MainAt("reindexOrUpgrade")
    /\ IF fReindex
       THEN /\ pcMain' = "upgradeResync"
            /\ LET files == IF args.prune
                            THEN CleanupBlockRevFiles([blk |-> blkFiles, rev |-> revFiles])
                            ELSE [blk |-> blkFiles, rev |-> revFiles]
               IN  blkFiles' = files.blk /\ revFiles' = files.rev
            /\ UNCHANGED <<strLoadError, faulted>>
       ELSE /\ \E ok \in BOOLEAN :
                 IF ok
                 THEN pcMain' = "upgradeResync" /\ UNCHANGED <<strLoadError, faulted>>
                 ELSE Break("upgrade") /\ faulted' = TRUE
            /\ UNCHANGED <<blkFiles, revFiles>>
    /\ UNCHANGED <<args, disk0, files0, disk, chainVars, objVars, svcVars, sigVars, fLoaded, fReset,
                   upgradeOnceOnly, upgradeCalls, attempts, creations, questions, answer, ret,
                   importVars, shutVars, procState, pureVars>>

\* a fallback that unloads and deletes but leaves fReindex as it is
WipeAndReindex_ReindexNotSet ==
    /\ pcMain' = "loadblockindex"
    /\ fReindex' = fReindex
    /\ mapBlockIndex' = "empty"
    /\ chainTip' = "none"
    /\ fHavePruned' = FALSE
    /\ blkFiles' = {}
    /\ revFiles' = {}

\* UnloadBlockIndex(); fReindex = true; blockStore.Delete(); goto loadblockindex;
WipeAndReindex ==
    /\ pcMain' = "loadblockindex"
    /\ fReindex' = TRUE
    /\ mapBlockIndex' = "empty"
    /\ chainTip' = "none"
    /\ fHavePruned' = FALSE
    /\ blkFiles' = {}
    /\ revFiles' = {}

\* a forced resync that does not clear upgradeOnceOnly
LoadLoop_UpgradeResync_KeepsFlag ==
    /\ MainAt("upgradeResync")
    /\ IF upgradeOnceOnly /\ nPreviousVersion < UpgradeVersion /\ args.resync
       THEN /\ upgradeOnceOnly' = upgradeOnceOnly
            /\ upgradeCalls' = upgradeCalls
            /\ WipeAndReindex
       ELSE /\ pcMain' = "loadIndex"
            /\ UNCHANGED <<upgradeOnceOnly, upgradeCalls, fReindex, mapBlockIndex, chainTip, fHavePruned,
                           blkFiles, revFiles>>
    /\ UNCHANGED <<inputVars, disk, fTxIndex, nPreviousVersion, objVars, svcVars, sigVars,
                   fLoaded, fReset, strLoadError, attempts, creations, questions, answer,
                   ret, importVars, shutVars, procState, pureVars>>

\* if (upgradeOnceOnly && nPreviousVersion < 1) { if (-resyncforblockindexupgrade) ...
LoadLoop_UpgradeResync ==
    /\ MainAt("upgradeResync")
    /\ IF upgradeOnceOnly /\ nPreviousVersion < UpgradeVersion /\ args.resync
       THEN /\ upgradeOnceOnly' = FALSE
            /\ upgradeCalls' = upgradeCalls
            /\ WipeAndReindex
       ELSE /\ pcMain' = "loadIndex"
            /\ UNCHANGED <<upgradeOnceOnly, upgradeCalls, fReindex, mapBlockIndex, chainTip, fHavePruned,
                           blkFiles, revFiles>>
    /\ UNCHANGED <<inputVars, disk, fTxIndex, nPreviousVersion, objVars, svcVars, sigVars,
                   fLoaded, fReset, strLoadError, attempts, creations, questions, answer,
                   ret, importVars, shutVars, procState, pureVars>>


\* LoadBlockIndex(chainparams): unless reindexing, the block index, its flags and the
\* best chain are read from the stores
LoadedFromDisk(d) ==
    [mapBlockIndex |-> IF d.index = "none" THEN "empty" ELSE d.index,
     fTxIndex      |-> d.txindex,
     fHavePruned   |-> d.havePruned,
     chainTip      |-> IF d.index = "none" THEN "none" ELSE d.coins]

\* if (!LoadBlockIndex(chainparams)) break;
LoadLoop_LoadIndex ==
    /\ MainAt("loadIndex")
    /\ \E ok \in BOOLEAN :
         IF ok
         THEN /\ pcMain' = "upgradeIndex"
              /\ LET l == LoadedFromDisk(disk)
                 IN  IF fReindex
                     THEN UNCHANGED <<mapBlockIndex, fTxIndex, fHavePruned, chainTip>>
                     ELSE /\ mapBlockIndex' = l.mapBlockIndex
                          /\ fTxIndex' = l.fTxIndex
                          /\ fHavePruned' = l.fHavePruned
                          /\ chainTip' = l.chainTip
              /\ UNCHANGED <<strLoadError, faulted>>
         ELSE /\ Break("loadindex")
              /\ faulted' = TRUE
              /\ UNCHANGED <<mapBlockIndex, fTxIndex, fHavePruned, chainTip>>
    /\ UNCHANGED <<args, disk0, files0, diskVars, fReindex, nPreviousVersion, objVars, svcVars,
                   sigVars, fLoaded, fReset, upgradeOnceOnly, upgradeCalls, attempts, creations,
                   questions, answer, ret, importVars, shutVars, procState, pureVars>>

\* if (upgradeOnceOnly && nPreviousVersion < 1) { upgradeOnceOnly = false; ...
\*     UpgradeBlockIndex ... goto loadblockindex; }
LoadLoop_UpgradeIndex ==
    /\ MainAt("upgradeIndex")
    /\ IF upgradeOnceOnly /\ nPreviousVersion < UpgradeVersion
       THEN /\ upgradeOnceOnly' = FALSE
            /\ upgradeCalls' = (IF ~args.resync THEN upgradeCalls + 1 ELSE upgradeCalls)
            /\ IF ~args.resync
               THEN \E ok \in BOOLEAN :
                      IF ok
                      THEN \* FlushStateToDisk(); UnloadBlockIndex(); goto loadblockindex
                           /\ pcMain' = "loadblockindex"
                           /\ disk' = [disk EXCEPT !.version = UpgradeVersion]
                           /\ mapBlockIndex' = "empty"
                           /\ chainTip' = "none"
                           /\ fHavePruned' = FALSE
                           /\ UNCHANGED <<fReindex, blkFiles, revFiles, faulted>>
                      ELSE /\ WipeAndReindex
                           /\ faulted' = TRUE
                           /\ disk' = disk
               ELSE /\ WipeAndReindex
                    /\ UNCHANGED <<disk, faulted>>
       ELSE /\ pcMain' = "genesis"
            /\ UNCHANGED <<upgradeOnceOnly, upgradeCalls, fReindex, mapBlockIndex, chainTip, fHavePruned,
                           diskVars, faulted>>
    /\ UNCHANGED <<args, disk0, files0, fTxIndex, nPreviousVersion, objVars, svcVars, sigVars,
                   fLoaded, fReset, strLoadError, attempts, creations, questions, answer,
                   ret, importVars, shutVars, procState, pureVars>>

\* if (!mapBlockIndex.empty() && mapBlockIndex.count(hashGenesisBlock) == 0)
\*     return InitError(...)
LoadLoop_Genesis ==
    /\ MainAt("genesis")
    /\ IF mapBlockIndex = "wrongGenesis"
       THEN Return("error") /\ LeaveLoop
       ELSE pcMain' = "initIndex" /\ ret' = ret /\ UNCHANGED <<fReset, strLoadError>>
    /\ UNCHANGED <<inputVars, diskVars, chainVars, objVars, svcVars, sigVars, fLoaded,
                   upgradeOnceOnly, upgradeCalls, attempts, creations, questions, answer, importVars,
                   shutVars, procState, pureVars>>

\* InitBlockIndex(chainparams): a no-op when a chain was loaded; otherwise the new
\* database takes the configured -txindex, and the genesis block unless reindexing
InitBlockIndex(ok, reindexing) ==
    IF chainTip # "none"
    THEN UNCHANGED <<fTxIndex, mapBlockIndex, disk>>
    ELSE IF ok
         THEN /\ fTxIndex' = args.txindex
              /\ mapBlockIndex' = IF reindexing THEN mapBlockIndex ELSE "ok"
              /\ disk' = [disk EXCEPT !.txindex = args.txindex,
                                      !.index = IF reindexing THEN @ ELSE "ok"]
         ELSE UNCHANGED <<fTxIndex, mapBlockIndex, disk>>

\* if (!InitBlockIndex(chainparams)) break;
LoadLoop_InitIndex ==
    /\ MainAt("initIndex")
    /\ \E ok \in (IF chainTip # "none" THEN {TRUE} ELSE BOOLEAN) :
         /\ InitBlockIndex(ok, fReindex)
         /\ IF ok
            THEN pcMain' = "txindex" /\ UNCHANGED <<strLoadError, faulted>>
            ELSE Break("initindex") /\ faulted' = TRUE
    /\ UNCHANGED <<args, disk0, files0, blkFiles, revFiles, fReindex, fHavePruned,
                   nPreviousVersion, chainTip, objVars, svcVars, sigVars, fLoaded, fReset,
                   upgradeOnceOnly, upgradeCalls, attempts, creations, questions, answer, ret,
                   importVars, shutVars, procState, pureVars>>

\* a loader that accepts whatever flag the store holds
TxIndexChanged_Ignored == FALSE

\* if (fTxIndex != GetBoolArg("-txindex", DEFAULT_TXINDEX)) break;
TxIndexChanged == fTxIndex # args.txindex

LoadLoop_TxIndex ==
    /\ MainAt("txindex")
    /\ IF TxIndexChanged
       THEN Break("txindex")
       ELSE pcMain' = "prune" /\ strLoadError' = strLoadError
    /\ UNCHANGED <<inputVars, diskVars, chainVars, objVars, svcVars, sigVars, fLoaded,
                   fReset, upgradeOnceOnly, upgradeCalls, attempts, creations, questions, answer, ret,
                   importVars, shutVars, procState, pureVars>>

\* if (fHavePruned && !fPruneMode) break;
LoadLoop_Prune ==
    /\ MainAt("prune")
    /\ IF fHavePruned /\ ~args.prune
       THEN Break("prune")
       ELSE pcMain' = "rewind" /\ strLoadError' = strLoadError
    /\ UNCHANGED <<inputVars, diskVars, chainVars, objVars, svcVars, sigVars, fLoaded,
                   fReset, upgradeOnceOnly, upgradeCalls, attempts, creations, questions, answer, ret,
                   importVars, shutVars, procState, pureVars>>

\* if (!fReindex && chainActive.Tip() != NULL) if (!RewindBlockIndex(chainparams)) break;
LoadLoop_Rewind ==
    /\ MainAt("rewind")
    /\ \E ok \in (IF ~fReindex /\ chainTip # "none" THEN BOOLEAN ELSE {TRUE}) :
         IF ok
         THEN pcMain' = "future" /\ UNCHANGED <<strLoadError, faulted>>
         ELSE Break("rewind") /\ faulted' = TRUE
    /\ UNCHANGED <<args, disk0, files0, diskVars, chainVars, objVars, svcVars, sigVars, fLoaded,
                   fReset, upgradeOnceOnly, upgradeCalls, attempts, creations, questions, answer, ret,
                   importVars, shutVars, procState, pureVars>>

\* if (tip && tip->nTime > GetAdjustedTime() + 2 * 60 * 60) break;
\* 2 * 60 * 60: how far ahead of the adjusted time a tip may be, in seconds
MaxFutureSkew == 7200

\* tip->nTime - GetAdjustedTime() of the tips of the model
TipSkew(tip) == IF tip = "future" THEN MaxFutureSkew + 1 ELSE 0

\* a check that accepts every tip
TipFromFuture_Never(tip) == FALSE

\* tip && tip->nTime > GetAdjustedTime() + 2 * 60 * 60
TipFromFuture(tip) == tip # "none" /\ TipSkew(tip) > MaxFutureSkew

LoadLoop_Future ==
    /\ MainAt("future")
    /\ IF TipFromFuture(chainTip)
       THEN Break("future")
       ELSE pcMain' = "verify" /\ strLoadError' = strLoadError
    /\ UNCHANGED <<inputVars, diskVars, chainVars, objVars, svcVars, sigVars, fLoaded,
                   fReset, upgradeOnceOnly, upgradeCalls, attempts, creations, questions, answer, ret,
                   importVars, shutVars, procState, pureVars>>

\* if (!CVerifyDB().VerifyDB(...)) break;   fLoaded = true;
LoadLoop_Verify ==
    /\ MainAt("verify")
    /\ \E ok \in BOOLEAN :
         IF ok
         THEN /\ fLoaded' = TRUE
              /\ pcMain' = "while"
              /\ UNCHANGED <<strLoadError, faulted>>
         ELSE /\ Break("corrupt")
              /\ faulted' = TRUE
              /\ fLoaded' = fLoaded
    /\ UNCHANGED <<args, disk0, files0, diskVars, chainVars, objVars, svcVars, sigVars, fReset,
                   upgradeOnceOnly, upgradeCalls, attempts, creations, questions, answer, ret,
                   importVars, shutVars, procState, pureVars>>

\* a loop that offers the reindex after every failed attempt
MayAskToReindex_Always == TRUE

\* if (!fLoaded) { if (!fReset) { ask; yes: fReindex = true; else return false; }
\*                 else return InitError(strLoadError); }
MayAskToReindex == ~fReset

\* a dialog whose missing answer counts as approval
Approved_UnlessDeclined(a) == a # "no"

\* fRet.value_or(false): no answer counts as a refusal
Approved(a) == a = "yes"

LoadLoop_Failed ==
    /\ MainAt("failed")
    /\ IF MayAskToReindex
       THEN /\ questions' = questions + 1
            /\ \E a \in {"yes", "no", "none"} :
                 /\ answer' = a
                 /\ IF Approved(a)
                    THEN /\ fReindex' = TRUE
                         /\ pcMain' = "while"
                         /\ UNCHANGED <<ret, fReset, strLoadError>>
                    ELSE /\ Return("false")
                         /\ LeaveLoop
                         /\ fReindex' = fReindex
       ELSE /\ Return("error")
            /\ LeaveLoop
            /\ UNCHANGED <<questions, answer, fReindex>>
    /\ UNCHANGED <<inputVars, diskVars, fTxIndex, fHavePruned, nPreviousVersion,
                   mapBlockIndex, chainTip, objVars, svcVars, sigVars, fLoaded,
                   upgradeOnceOnly, upgradeCalls, attempts, creations, importVars, shutVars, procState,
                   pureVars>>

\* a startup that launches the import without loading the wallet
AppInitMain_AfterLoad_SkipsWallet ==
    /\ MainAt("afterLoad")
    /\ IF fRequestShutdown
       THEN Return("false") /\ fFeeEstimatesInitialized' = fFeeEstimatesInitialized
       ELSE pcMain' = "step10" /\ ret' = ret /\ fFeeEstimatesInitialized' = TRUE
    /\ UNCHANGED <<inputVars, diskVars, chainVars, objVars, g_connman, vpwallets,
                   rpcWarmup, sigVars, loopVars, importVars, shutVars, procState,
                   pureVars>>

\* if (ShutdownRequested()) return false;  ...  fFeeEstimatesInitialized = true;
AppInitMain_AfterLoad ==
    /\ MainAt("afterLoad")
    /\ IF fRequestShutdown
       THEN Return("false") /\ fFeeEstimatesInitialized' = fFeeEstimatesInitialized
       ELSE pcMain' = "wallet" /\ ret' = ret /\ fFeeEstimatesInitialized' = TRUE
    /\ UNCHANGED <<inputVars, diskVars, chainVars, objVars, g_connman, vpwallets,
                   rpcWarmup, sigVars, loopVars, importVars, shutVars, procState,
                   pureVars>>

\* Step 8: if (!CWallet::InitLoadWallet()) return false;
AppInitMain_Step8 ==
    /\ MainAt("wallet")
    /\ \E ok \in BOOLEAN :
         IF ok
         THEN pcMain' = "step10" /\ ret' = ret /\ vpwallets' = TRUE /\ faulted' = faulted
         ELSE Return("false") /\ vpwallets' = vpwallets /\ faulted' = TRUE
    /\ UNCHANGED <<args, disk0, files0, diskVars, chainVars, objVars, g_connman,
                   fFeeEstimatesInitialized, rpcWarmup, sigVars, loopVars, importVars,
                   shutVars, procState, pureVars>>

\* Step 10: if (!CheckDiskSpace()) return false;  the genesis handler is connected or
\* fHaveGenesis set;  threadGroup.create_thread(ThreadImport)
AppInitMain_Step10 ==
    /\ MainAt("step10")
    /\ \E ok \in BOOLEAN :
         IF ok
         THEN /\ pcMain' = "waitGenesis"
              /\ ret' = ret
              /\ IF chainTip = "none"
                 THEN genesisWaitConnected' = TRUE /\ fHaveGenesis' = fHaveGenesis
                 ELSE fHaveGenesis' = TRUE /\ genesisWaitConnected' = genesisWaitConnected
              /\ pcImport' = "start"
              /\ faulted' = faulted
         ELSE /\ Return("false")
              /\ faulted' = TRUE
              /\ UNCHANGED <<genesisWaitConnected, fHaveGenesis, pcImport>>
    /\ UNCHANGED <<args, disk0, files0, diskVars, chainVars, objVars, svcVars, fRequestShutdown,
                   fDumpMempoolLater, loopVars, nFile, visited, openFailed, bootstrapDat,
                   imported, lookup, shutVars, procState, pureVars>>

\* a startup that goes on without waiting for the condition
AppInitMain_WaitGenesis_NoWait ==
    /\ MainAt("waitGenesis")
    /\ genesisWaitConnected' = FALSE
    /\ pcMain' = "step11"
    /\ UNCHANGED <<inputVars, diskVars, chainVars, objVars, svcVars, fRequestShutdown,
                   fHaveGenesis, fDumpMempoolLater, loopVars, ret, importVars, shutVars,
                   procState, pureVars>>

\* while (!fHaveGenesis) condvar_GenesisWait.wait(lock);  disconnect the handler
AppInitMain_WaitGenesis ==
    /\ MainAt("waitGenesis")
    /\ fHaveGenesis
    /\ genesisWaitConnected' = FALSE
    /\ pcMain' = "step11"
    /\ UNCHANGED <<inputVars, diskVars, chainVars, objVars, svcVars, fRequestShutdown,
                   fHaveGenesis, fDumpMempoolLater, loopVars, ret, importVars, shutVars,
                   procState, pureVars>>

\* Step 11: if (!connman.Start(scheduler, strNodeError, connOptions)) return InitError
AppInitMain_Step11 ==
    /\ MainAt("step11")
    /\ \E ok \in BOOLEAN :
         IF ok
         THEN pcMain' = "step12" /\ ret' = ret /\ g_connman' = "started" /\ faulted' = faulted
         ELSE Return("error") /\ g_connman' = g_connman /\ faulted' = TRUE
    /\ UNCHANGED <<args, disk0, files0, diskVars, chainVars, objVars, fFeeEstimatesInitialized,
                   vpwallets, rpcWarmup, sigVars, loopVars, importVars, shutVars,
                   procState, pureVars>>

\* Step 12: SetRPCWarmupFinished(); "Done loading"; return !ShutdownRequested();
AppInitMain_Step12 ==
    /\ MainAt("step12")
    /\ rpcWarmup' = "finished"
    /\ Return(IF fRequestShutdown THEN "false" ELSE "true")
    /\ UNCHANGED <<inputVars, diskVars, chainVars, objVars, g_connman,
                   fFeeEstimatesInitialized, vpwallets, sigVars, loopVars, importVars,
                   shutVars, procState, pureVars>>

\* GuldenAppManager::gApp->shutdown() from the user interface or a signal handler
\* once CoreShutdown has been entered only ThreadImport still reads the flag
RequestShutdown ==
    /\ procState = "running"
    /\ ~fRequestShutdown
    /\ nCalls = 0 \/ pcImport \notin {"idle", "done"}
    /\ fRequestShutdown' = TRUE
    /\ UNCHANGED <<inputVars, diskVars, chainVars, objVars, svcVars, fHaveGenesis,
                   genesisWaitConnected, fDumpMempoolLater, loopVars, mainVars,
                   importVars, shutVars, procState, pureVars>>


(***************************************************************************)
(* Lookups through the views.  The backing store answers "found" or        *)
(* "absent", or raises a read fault (a std::runtime_error).                *)
(***************************************************************************)
BackingOutcomes == {"found", "absent", "fault"}

\* CCoinsViewBacked::GetCoin: the answer of the base view, or its exception
CCoinsViewBacked_GetCoin(backing) ==
    CASE backing = "found"  -> "true"
      [] backing = "absent" -> "false"
      [] backing = "fault"  -> "throw"

\* a facade that swallows the exception and answers "not found"
CCoinsViewErrorCatcher_GetCoin_Swallows(backing) ==
    IF CCoinsViewBacked_GetCoin(backing) = "throw"
    THEN "false"
    ELSE CCoinsViewBacked_GetCoin(backing)

\* CCoinsViewErrorCatcher::GetCoin: try { return base } catch (runtime_error) { abort(); }
CCoinsViewErrorCatcher_GetCoin(backing) ==
    IF CCoinsViewBacked_GetCoin(backing) = "throw"
    THEN "abort"
    ELSE CCoinsViewBacked_GetCoin(backing)

\* a cache miss of pcoinsTip / ppow2witTip reads through the view's base
ViewGetCoin(v, backing) ==
    IF viewBase[v] = "catcher"
    THEN CCoinsViewErrorCatcher_GetCoin(backing)
    ELSE CCoinsViewBacked_GetCoin(backing)

NoLookup == [view |-> "none", backing |-> "none", result |-> "none", activated |-> FALSE]

(***************************************************************************)
(* ThreadImport.                                                           *)
(***************************************************************************)
ImportAt(p) == procState = "running" /\ pcImport = p

\* a source handed to fopen / GetBlockFile: a block file of the scan (id: its
\* index), bootstrap.dat (id 0) or a file of -loadblock (id: its position)
Source(src, id, opened) == [src |-> src, id |-> id, ok |-> opened]

\* CImportingNow imp;  if (fReindex) { int nFile = 0; ...
ThreadImport_Start ==
    /\ ImportAt("start")
    /\ IF fReindex
       THEN pcImport' = "scan" /\ nFile' = 0
       ELSE pcImport' = "bootstrap" /\ nFile' = nFile
    /\ UNCHANGED <<inputVars, diskVars, chainVars, objVars, svcVars, sigVars, loopVars,
                   mainVars, visited, openFailed, bootstrapDat, imported, lookup, shutVars,
                   procState, pureVars>>

\* one iteration of while (true): BlockFileExists, GetBlockFile, LoadExternalBlockFile
ThreadImport_ScanFile ==
    /\ ImportAt("scan")
    /\ IF nFile \notin blkFiles
       THEN /\ pcImport' = "scanDone"
            /\ UNCHANGED <<nFile, visited, openFailed, imported, faulted>>
       ELSE \E opened \in BOOLEAN :
              /\ imported' = Append(imported, Source("scan", nFile, opened))
              /\ IF opened
                 THEN /\ visited' = Append(visited, nFile)
                      /\ nFile' = nFile + 1
                      /\ UNCHANGED <<pcImport, openFailed, faulted>>
                 ELSE /\ pcImport' = "scanDone"
                      /\ openFailed' = TRUE
                      /\ faulted' = TRUE
                      /\ UNCHANGED <<nFile, visited>>
    /\ UNCHANGED <<args, disk0, files0, diskVars, chainVars, objVars, svcVars, sigVars, loopVars,
                   mainVars, bootstrapDat, lookup, shutVars, procState, pureVars>>

\* pblocktree->WriteReindexing(false); fReindex = false; InitBlockIndex(chainparams);
ThreadImport_ScanDone ==
    /\ ImportAt("scanDone")
    /\ fReindex' = FALSE
    /\ pcImport' = "bootstrap"
    /\ \E ok \in (IF chainTip # "none" THEN {TRUE} ELSE BOOLEAN) :
         /\ InitBlockIndex(ok, FALSE)
         /\ faulted' = (faulted \/ ~ok)
    /\ UNCHANGED <<args, disk0, files0, blkFiles, revFiles, fHavePruned, nPreviousVersion,
                   chainTip, objVars, svcVars, sigVars, loopVars, mainVars, nFile,
                   visited, openFailed, bootstrapDat, imported, lookup, shutVars,
                   procState, pureVars>>

\* a worker that imports bootstrap.dat and leaves it under its name
ThreadImport_Bootstrap_NoRename ==
    /\ ImportAt("bootstrap")
    /\ pcImport' = "loadblock"
    /\ IF bootstrapDat
       THEN \E opened \in BOOLEAN :
              /\ imported' = Append(imported, Source("bootstrap", 0, opened))
              /\ bootstrapDat' = bootstrapDat
              /\ faulted' = (faulted \/ ~opened)
       ELSE UNCHANGED <<imported, bootstrapDat, faulted>>
    /\ UNCHANGED <<args, disk0, files0, diskVars, chainVars, objVars, svcVars, sigVars,
                   loopVars, mainVars, nFile, visited, openFailed, lookup, shutVars,
                   procState, pureVars>>

\* if (fs::exists(pathBootstrap)) { file = fopen(..); if (file) {
\* LoadExternalBlockFile(chainparams, file); RenameOver(pathBootstrap, ".old"); } }
ThreadImport_Bootstrap ==
    /\ ImportAt("bootstrap")
    /\ pcImport' = "loadblock"
    /\ IF bootstrapDat
       THEN \E opened \in BOOLEAN :
              /\ imported' = Append(imported, Source("bootstrap", 0, opened))
              /\ bootstrapDat' = ~opened
              /\ faulted' = (faulted \/ ~opened)
       ELSE UNCHANGED <<imported, bootstrapDat, faulted>>
    /\ UNCHANGED <<args, disk0, files0, diskVars, chainVars, objVars, svcVars, sigVars,
                   loopVars, mainVars, nFile, visited, openFailed, lookup, shutVars,
                   procState, pureVars>>

\* the files of -loadblock, as AppInitMain hands them to the thread
vImportFiles == args.loadblock

\* a worker that stops importing after the first file of -loadblock
NextImportFile_FirstOnly ==
    IF imported # <<>> /\ imported[Len(imported)].src = "loadblock"
    THEN Len(vImportFiles) + 1
    ELSE 1

\* the position in vImportFiles the for loop has reached
NextImportFile == Cardinality({i \in 1..Len(imported) : imported[i].src = "loadblock"}) + 1

\* one iteration of for (path : vImportFiles): fopen, LoadExternalBlockFile
ThreadImport_LoadBlock ==
    /\ ImportAt("loadblock")
    /\ IF NextImportFile > Len(vImportFiles)
       THEN /\ pcImport' = "activate"
            /\ UNCHANGED <<imported, faulted>>
       ELSE \E opened \in BOOLEAN :
              /\ imported' = Append(imported, Source("loadblock", NextImportFile, opened))
              /\ faulted' = (faulted \/ ~opened)
              /\ pcImport' = pcImport
    /\ UNCHANGED <<args, disk0, files0, diskVars, chainVars, objVars, svcVars, sigVars,
                   loopVars, mainVars, nFile, visited, openFailed, bootstrapDat, lookup,
                   shutVars, procState, pureVars>>

\* a handler that never sets fHaveGenesis
BlockNotifyGenesisWait_NoSignal(pBlockIndex) == fHaveGenesis' = fHaveGenesis

\* NotifyBlockTip(initialSync, pBlockIndex) with the handlers connected to it
BlockNotifyGenesisWait(pBlockIndex) ==
    IF genesisWaitConnected /\ pBlockIndex # "none"
    THEN fHaveGenesis' = TRUE
    ELSE fHaveGenesis' = fHaveGenesis

\* GuldenAppManager::gApp->shutdown(): the application is asked to shut down, which
\* ShutdownRequested() reports from then on
GuldenAppManager_shutdown(requested) == fRequestShutdown' = (fRequestShutdown \/ requested)

\* a worker that goes on after a failed activation
ActivationFailureIsFatal_Ignored(activated) == FALSE

\* if (!ActivateBestChain(state, chainparams)) { ... shutdown(); }
ActivationFailureIsFatal(activated) == ~activated

\* if (!ActivateBestChain(state, chainparams)) GuldenAppManager::gApp->shutdown();
\* the validator reads coins through pcoinsTip and ppow2witTip
ThreadImport_Activate ==
    /\ ImportAt("activate")
    /\ \E v \in Views, backing \in BackingOutcomes, ok \in BOOLEAN :
         LET r == ViewGetCoin(v, backing)
         IN  /\ lookup' = [view |-> v, backing |-> backing, result |-> r,
                             activated |-> (ok /\ r \notin {"abort", "throw"})]
             /\ IF r \in {"abort", "throw"}
                THEN /\ procState' = "aborted"
                     /\ faulted' = TRUE
                     /\ UNCHANGED <<pcImport, chainTip, fHaveGenesis, fRequestShutdown>>
                ELSE /\ procState' = procState
                     /\ pcImport' = "finish"
                     /\ IF ok
                        THEN /\ chainTip' = IF chainTip = "none" THEN "ok" ELSE chainTip
                             /\ BlockNotifyGenesisWait("ok")
                             /\ faulted' = faulted
                        ELSE /\ faulted' = TRUE
                             /\ UNCHANGED <<chainTip, fHaveGenesis>>
                     /\ GuldenAppManager_shutdown(ActivationFailureIsFatal(ok))
    /\ UNCHANGED <<args, disk0, files0, diskVars, fReindex, fTxIndex, fHavePruned,
                   nPreviousVersion, mapBlockIndex, objVars, svcVars,
                   genesisWaitConnected, fDumpMempoolLater, loopVars, mainVars, nFile,
                   visited, openFailed, bootstrapDat, imported, shutVars, pureVars>>

\* if (-stopafterblockimport) shutdown();  if (-persistmempool) { LoadMempool();
\* fDumpMempoolLater = !ShutdownRequested(); }
ThreadImport_Finish ==
    /\ ImportAt("finish")
    /\ pcImport' = "done"
    /\ lookup' = NoLookup
    /\ GuldenAppManager_shutdown(args.stopAfterImport)
    /\ fDumpMempoolLater' = IF args.persistMempool
                            THEN ~(fRequestShutdown \/ args.stopAfterImport)
                            ELSE fDumpMempoolLater
    /\ UNCHANGED <<inputVars, diskVars, chainVars, objVars, svcVars, fHaveGenesis,
                   genesisWaitConnected, loopVars, mainVars, nFile, visited, openFailed,
                   bootstrapDat, imported, shutVars, procState, pureVars>>


(***************************************************************************)
(* CoreShutdown, called once by each thread of callers after AppInitMain   *)
(* has returned.  log records each teardown step that is executed.         *)
(***************************************************************************)
ShutdownThreads == {"t1", "t2"}

ShAt(t, p) == procState = "running" /\ pcSh[t] = p
Goto(t, p) == pcSh' = [pcSh EXCEPT ![t] = p]
Logged(t, evs) == log' = log \o [i \in 1..Len(evs) |-> [call |-> callId[t], ev |-> evs[i]]]
ShFrame == <<callers, callId, nCalls, csShutdown, overlapped, eraseVars>>

\* the user interface sets the erase flags; they are read by the last step of
\* CoreShutdown only, so setting them any earlier makes no difference
SetEraseDirective ==
    /\ procState = "running"
    /\ \E t \in ShutdownThreads : pcSh[t] = "erase"
    /\ ~partiallyEraseDatadirOnShutdown /\ ~fullyEraseDatadirOnShutdown
    /\ \E partial \in BOOLEAN, full \in BOOLEAN :
         /\ partial \/ full
         /\ partiallyEraseDatadirOnShutdown' = partial
         /\ fullyEraseDatadirOnShutdown' = full
    /\ erased' = erased
    /\ UNCHANGED <<inputVars, diskVars, chainVars, objVars, svcVars, sigVars, loopVars,
                   mainVars, importVars, callers, pcSh, callId, nCalls, csShutdown,
                   overlapped, log, procState, pureVars>>

\* a connection manager that ignores Interrupt()
CConnman_Interrupt_Ignored(c) == c

\* g_connman->Interrupt(): a connection manager that was stopped stays stopped
CConnman_Interrupt(c) == IF c \in {"created", "started"} THEN "interrupted" ELSE c

\* CoreInterrupt: if (g_connman) g_connman->Interrupt(); InterruptRPC(); ...
\* threadGroup.interrupt_all().  The application calls it once AppInitMain has
\* returned, before it calls CoreShutdown.
CoreInterrupt(t) ==
    /\ ShAt(t, "idle")
    /\ pcMain = "returned"
    /\ t \in callers
    /\ g_connman' = (IF g_connman # "null" THEN CConnman_Interrupt(g_connman) ELSE g_connman)
    /\ Goto(t, "interrupted")
    /\ UNCHANGED <<inputVars, diskVars, chainVars, objVars, fFeeEstimatesInitialized,
                   vpwallets, rpcWarmup, sigVars, loopVars, mainVars, importVars, ShFrame,
                   log, procState, pureVars>>

\* the application calls CoreShutdown when its call of CoreInterrupt has returned
CallsCoreShutdown(t) == pcSh[t] = "interrupted"

InCoreShutdown(t) == pcSh[t] \notin {"idle", "interrupted"}

\* a thread enters CoreShutdown
CoreShutdown_Call(t) ==
    /\ procState = "running"
    /\ CallsCoreShutdown(t)
    /\ pcMain = "returned"
    /\ t \in callers
    /\ callers' = callers \ {t}
    /\ t = "t2" => nCalls > 0          \* t1 names the thread that calls first
    /\ Goto(t, "trylock")
    /\ nCalls' = nCalls + 1
    /\ callId' = [callId EXCEPT ![t] = nCalls + 1]
    /\ overlapped' = (overlapped \/ \E u \in ShutdownThreads \ {t} : InCoreShutdown(u))
    /\ UNCHANGED <<inputVars, diskVars, chainVars, objVars, svcVars, sigVars, loopVars,
                   mainVars, importVars, csShutdown, log, eraseVars, procState, pureVars>>

\* TRY_LOCK(cs_Shutdown, lockShutdown); if (!lockShutdown) return;
TryLockShutdown(t) == csShutdown \in {"none", t}

CoreShutdown_TryLock(t) ==
    /\ ShAt(t, "trylock")
    /\ IF TryLockShutdown(t)
       THEN csShutdown' = t /\ Goto(t, "netStop")
       ELSE csShutdown' = csShutdown /\ Goto(t, "idle")
    /\ UNCHANGED <<inputVars, diskVars, chainVars, objVars, svcVars, sigVars, loopVars,
                   mainVars, importVars, callers, callId, nCalls, overlapped, log,
                   eraseVars, procState, pureVars>>

\* if (g_connman) g_connman->Stop();  StopHTTPServer(); StopHTTPRPC(); StopRPC(); ...
CoreShutdown_NetStop(t) ==
    /\ ShAt(t, "netStop")
    /\ IF g_connman # "null"
       THEN g_connman' = "stopped" /\ Logged(t, <<"netStop", "stopRPC">>)
       ELSE g_connman' = g_connman /\ Logged(t, <<"stopRPC">>)
    /\ Goto(t, "join")
    /\ UNCHANGED <<inputVars, diskVars, chainVars, objVars, fFeeEstimatesInitialized,
                   vpwallets, rpcWarmup, sigVars, loopVars, mainVars, importVars, ShFrame,
                   procState, pureVars>>

\* threadGroup.join_all(): returns when the import thread has ended
CoreShutdown_Join(t) ==
    /\ ShAt(t, "join")
    /\ pcImport \in {"idle", "done"}
    /\ Logged(t, <<"joinAll">>)
    /\ Goto(t, "walletSoft")
    /\ UNCHANGED <<inputVars, diskVars, chainVars, objVars, svcVars, sigVars, loopVars,
                   mainVars, importVars, ShFrame, procState, pureVars>>

\* a teardown that does the final wallet flush at this point
CoreShutdown_WalletSoft_Final(t) ==
    /\ ShAt(t, "walletSoft")
    /\ IF vpwallets THEN Logged(t, <<"walletFlushFinal">>) ELSE log' = log
    /\ Goto(t, "netDelete")
    /\ UNCHANGED <<inputVars, diskVars, chainVars, objVars, svcVars, sigVars, loopVars,
                   mainVars, importVars, ShFrame, procState, pureVars>>

\* for (pwallet : vpwallets) pwallet->Flush(false);
CoreShutdown_WalletSoft(t) ==
    /\ ShAt(t, "walletSoft")
    /\ IF vpwallets THEN Logged(t, <<"walletFlushSoft">>) ELSE log' = log
    /\ Goto(t, "netDelete")
    /\ UNCHANGED <<inputVars, diskVars, chainVars, objVars, svcVars, sigVars, loopVars,
                   mainVars, importVars, ShFrame, procState, pureVars>>

\* MapPort(false); peerLogic.reset(); g_connman.reset();
CoreShutdown_NetDelete(t) ==
    /\ ShAt(t, "netDelete")
    /\ IF g_connman # "null" THEN Logged(t, <<"netDelete">>) ELSE log' = log
    /\ g_connman' = "null"
    /\ Goto(t, "snapshots")
    /\ UNCHANGED <<inputVars, diskVars, chainVars, objVars, fFeeEstimatesInitialized,
                   vpwallets, rpcWarmup, sigVars, loopVars, mainVars, importVars, ShFrame,
                   procState, pureVars>>

\* a teardown that writes both snapshot files whatever was initialized
CoreShutdown_Snapshots_Unguarded(t) ==
    /\ ShAt(t, "snapshots")
    /\ Logged(t, <<"dumpMempool", "dumpFeeEstimates">>)
    /\ fFeeEstimatesInitialized' = FALSE
    /\ Goto(t, "flush")
    /\ UNCHANGED <<inputVars, diskVars, chainVars, objVars, g_connman, vpwallets,
                   rpcWarmup, sigVars, loopVars, mainVars, importVars, ShFrame, procState,
                   pureVars>>

\* if (fDumpMempoolLater && -persistmempool) DumpMempool();
\* if (fFeeEstimatesInitialized) { write fee_estimates.dat; flag = false; }
CoreShutdown_Snapshots(t) ==
    /\ ShAt(t, "snapshots")
    /\ Logged(t, (IF fDumpMempoolLater /\ args.persistMempool
                  THEN <<"dumpMempool">> ELSE <<>>)
                 \o (IF fFeeEstimatesInitialized THEN <<"dumpFeeEstimates">> ELSE <<>>))
    /\ fFeeEstimatesInitialized' = FALSE
    /\ Goto(t, "flush")
    /\ UNCHANGED <<inputVars, diskVars, chainVars, objVars, g_connman, vpwallets,
                   rpcWarmup, sigVars, loopVars, mainVars, importVars, ShFrame, procState,
                   pureVars>>

\* using or deleting a freed object is undefined: the process may crash or go on
MayCrash(t, undefined, next) ==
    \E crash \in (IF undefined THEN BOOLEAN ELSE {FALSE}) :
        IF crash
        THEN procState' = "crashed" /\ pcSh' = pcSh
        ELSE procState' = procState /\ Goto(t, next)

\* a teardown that flushes without looking at pcoinsTip
FlushGuard_Always == TRUE

\* LOCK(cs_main); if (pcoinsTip != NULL) FlushStateToDisk();
FlushGuard == ptr["pcoinsTip"] # "null"

CoreShutdown_Flush(t) ==
    /\ ShAt(t, "flush")
    /\ IF FlushGuard THEN Logged(t, <<"flush">>) ELSE log' = log
    /\ MayCrash(t, FlushGuard /\ ptr["pcoinsTip"] = "dangling", "closeFiles")
    /\ UNCHANGED <<inputVars, diskVars, chainVars, objVars, svcVars, sigVars, loopVars,
                   mainVars, importVars, ShFrame, pureVars>>

\* blockStore.CloseBlockFiles();
CoreShutdown_CloseFiles(t) ==
    /\ ShAt(t, "closeFiles")
    /\ Logged(t, <<"closeBlockFiles">>)
    /\ Goto(t, "releaseMain")
    /\ UNCHANGED <<inputVars, diskVars, chainVars, objVars, svcVars, sigVars, loopVars,
                   mainVars, importVars, ShFrame, procState, pureVars>>

\* delete p; p = NULL; for each object of S
ReleaseStep(t, S, ev, next) ==
    /\ IF \E o \in S : ptr[o] # "null" THEN Logged(t, <<ev>>) ELSE log' = log
    /\ ptr' = Released(ptr, S)
    /\ MayCrash(t, AnyDangling(ptr, S), next)

\* delete pcoinsTip; delete pcoinscatcher; delete pcoinsdbview (each set to NULL)
CoreShutdown_ReleaseMain(t) ==
    /\ ShAt(t, "releaseMain")
    /\ ReleaseStep(t, {"pcoinsTip", "pcoinscatcher", "pcoinsdbview"}, "releaseMain",
                   "releaseWitness")
    /\ UNCHANGED <<inputVars, diskVars, chainVars, viewBase, everBuilt, svcVars, sigVars,
                   loopVars, mainVars, importVars, ShFrame, pureVars>>

\* ppow2witTip = nullptr; delete ppow2witcatcher; delete ppow2witdbview (set to NULL)
CoreShutdown_ReleaseWitness(t) ==
    /\ ShAt(t, "releaseWitness")
    /\ ReleaseStep(t, WitObjs, "releaseWitness", "releaseBlockTree")
    /\ UNCHANGED <<inputVars, diskVars, chainVars, viewBase, everBuilt, svcVars, sigVars,
                   loopVars, mainVars, importVars, ShFrame, pureVars>>

\* delete pblocktree; pblocktree = NULL;
CoreShutdown_ReleaseBlockTree(t) ==
    /\ ShAt(t, "releaseBlockTree")
    /\ ReleaseStep(t, {"pblocktree"}, "releaseBlockTree", "walletFinal")
    /\ UNCHANGED <<inputVars, diskVars, chainVars, viewBase, everBuilt, svcVars, sigVars,
                   loopVars, mainVars, importVars, ShFrame, pureVars>>

\* for (pwallet : vpwallets) pwallet->Flush(true);
CoreShutdown_WalletFinal(t) ==
    /\ ShAt(t, "walletFinal")
    /\ IF vpwallets THEN Logged(t, <<"walletFlushFinal">>) ELSE log' = log
    /\ Goto(t, "unregister")
    /\ UNCHANGED <<inputVars, diskVars, chainVars, objVars, svcVars, sigVars, loopVars,
                   mainVars, importVars, ShFrame, procState, pureVars>>

\* UnregisterAllValidationInterfaces();  delete pwallet; vpwallets.clear();
CoreShutdown_Unregister(t) ==
    /\ ShAt(t, "unregister")
    /\ Logged(t, <<"unregisterSubscribers">>)
    /\ vpwallets' = FALSE
    /\ Goto(t, "eccStop")
    /\ UNCHANGED <<inputVars, diskVars, chainVars, objVars, g_connman,
                   fFeeEstimatesInitialized, rpcWarmup, sigVars, loopVars, mainVars,
                   importVars, ShFrame, procState, pureVars>>

\* globalVerifyHandle.reset(); ECC_Stop();
CoreShutdown_EccStop(t) ==
    /\ ShAt(t, "eccStop")
    /\ Logged(t, <<"eccStop">>)
    /\ Goto(t, "erase")
    /\ UNCHANGED <<inputVars, diskVars, chainVars, objVars, svcVars, sigVars, loopVars,
                   mainVars, importVars, ShFrame, procState, pureVars>>

\* fs::remove_all(GetDataDir() / "autocheckpoints"); fs::remove(.. "banlist.dat"); ..
PartialEraseTargets == {"autocheckpoints", "banlist.dat", "peers.dat"}

\* fs::remove(.. "mempool.dat"); .. FEE_ESTIMATES_FILENAME; "blocks"; "chainstate"; ..
FullEraseTargets == {"mempool.dat", "fee_estimates.dat", "blocks", "chainstate",
                     "witstate", "database", "db.log"}

\* a partial erase that takes the chain data as well
EraseTargets_PartialTakesAll(partial, full) ==
    IF full \/ partial THEN PartialEraseTargets \cup FullEraseTargets ELSE {}

\* if (fully || partially) { ... }  if (fully) { ... }
EraseTargets(partial, full) ==
    (IF full \/ partial THEN PartialEraseTargets ELSE {})
    \cup (IF full THEN FullEraseTargets ELSE {})

\* each removal is wrapped in try { } catch(...) { LogPrintf("Failed to delete ..") };
\* the removals that may fail in the model
RemoveFailures == {{}, {"peers.dat"}, {"blocks"}}

\* if (fully || partially) { remove caches, banlist, peers }  if (fully) { remove ... }
\* then the function returns and lockShutdown releases cs_Shutdown
CoreShutdown_Erase(t) ==
    /\ ShAt(t, "erase")
    /\ LET targets == EraseTargets(partiallyEraseDatadirOnShutdown,
                                   fullyEraseDatadirOnShutdown)
       IN  \E failed \in {F \in RemoveFailures : F \subseteq targets} :
             /\ erased' = erased \cup (targets \ failed)
             /\ faulted' = (faulted \/ failed # {})
    /\ Logged(t, (IF fullyEraseDatadirOnShutdown \/ partiallyEraseDatadirOnShutdown
                  THEN <<"erasePartial">> ELSE <<>>)
                 \o (IF fullyEraseDatadirOnShutdown THEN <<"eraseFull">> ELSE <<>>))
    /\ csShutdown' = "none"
    /\ Goto(t, "idle")
    /\ UNCHANGED <<args, disk0, files0, diskVars, chainVars, objVars, svcVars, sigVars,
                   loopVars, mainVars, importVars, callers, callId, nCalls, overlapped,
                   partiallyEraseDatadirOnShutdown, fullyEraseDatadirOnShutdown,
                   procState, pureVars>>

\* the holder of cs_main.  CoreShutdown holds it from LOCK(cs_main) to the end of
\* the block that closes the stores; AppInitMain takes it only around the check of
\* the tip's time stamp and ThreadImport only around the look-up of a block file,
\* each inside one step, so neither holds it from one step to the next
cs_main ==
    IF \E t \in ShutdownThreads :
          pcSh[t] \in {"closeFiles", "releaseMain", "releaseWitness", "releaseBlockTree"}
    THEN CHOOSE t \in ShutdownThreads :
          pcSh[t] \in {"closeFiles", "releaseMain", "releaseWitness", "releaseBlockTree"}
    ELSE "none"

CoreShutdown(t) ==
    \/ CoreShutdown_Call(t)
    \/ CoreShutdown_TryLock(t)
    \/ CoreShutdown_NetStop(t)
    \/ CoreShutdown_Join(t)
    \/ CoreShutdown_WalletSoft(t)
    \/ CoreShutdown_NetDelete(t)
    \/ CoreShutdown_Snapshots(t)
    \/ CoreShutdown_Flush(t)
    \/ CoreShutdown_CloseFiles(t)
    \/ CoreShutdown_ReleaseMain(t)
    \/ CoreShutdown_ReleaseWitness(t)
    \/ CoreShutdown_ReleaseBlockTree(t)
    \/ CoreShutdown_WalletFinal(t)
    \/ CoreShutdown_Unregister(t)
    \/ CoreShutdown_EccStop(t)
    \/ CoreShutdown_Erase(t)


(***************************************************************************)
(* The lifecycle specification.                                            *)
(***************************************************************************)
ArgOptions == {"reindex", "reindex-chainstate", "txindex", "prune",
               "resyncforblockindexupgrade", "persistmempool=0", "stopafterblockimport"}

ArgsOf(S) == [reindex           |-> "reindex" \in S,
              reindexChainState |-> "reindex-chainstate" \in S,
              txindex           |-> "txindex" \in S,
              prune             |-> "prune" \in S,
              resync            |-> "resyncforblockindexupgrade" \in S,
              persistMempool    |-> "persistmempool=0" \notin S,
              stopAfterImport   |-> "stopafterblockimport" \in S,
              loadblock         |-> <<>>]

\* AppInitParameterInteraction rejects -prune together with -txindex
ArgScenarios ==
    {ArgsOf(S) : S \in {T \in SUBSET ArgOptions :
                          /\ Cardinality(T) <= MaxOptions
                          /\ ~({"prune", "txindex"} \subseteq T)}}

FileIndices == 0 .. (MaxFile - 1)

\* the runs: every scenario of options and data directory with block file 0 and its
\* undo file, and a pruned node restarted with -reindex on every set of block files
InitRuns ==
    \/ /\ args \in ArgScenarios
       /\ disk \in DiskScenarios
       /\ blkFiles = (IF disk.index = "none" THEN {} ELSE {0})
       /\ revFiles = (IF disk.index = "none" THEN {} ELSE {0})
    \/ /\ args = ArgsOf({"reindex", "prune"})
       /\ disk = [index |-> "ok", txindex |-> FALSE, havePruned |-> TRUE,
                  coins |-> "ok", version |-> UpgradeVersion]
       /\ blkFiles \in SUBSET FileIndices
       /\ revFiles \in ({{}} \cup {{i} : i \in FileIndices})
       /\ <<blkFiles, revFiles>> # <<{0}, {0}>>

\* the files -loadblock can name, in the order given
LoadBlockLists == {SubSeq(<<"a.dat", "b.dat", "c.dat">>, 1, n) : n \in 0..MaxLoadBlock}

\* the runs with block files to import: bootstrap.dat and the files of -loadblock
ImportRuns ==
    /\ \E S \in {{}, {"reindex"}}, files \in LoadBlockLists :
         args = [ArgsOf(S) EXCEPT !.loadblock = files]
    /\ disk = [index |-> "ok", txindex |-> FALSE, havePruned |-> FALSE, coins |-> "ok",
               version |-> UpgradeVersion]
    /\ blkFiles = {0}
    /\ revFiles = {0}
    /\ bootstrapDat \in BOOLEAN
    /\ Len(args.loadblock) > 0 \/ bootstrapDat

\* the models of test/main_tests.cpp are not running
TestsIdle ==
    /\ signal = [pc |-> "off"]
    /\ subsidy = [pc |-> "off"]

\* the statement-level models of ThreadImport's scan and of InitParameterInteraction
\* are not running
RulesIdle ==
    /\ scan = [pc |-> "off"]
    /\ rules = [pc |-> "off"]

\* CoreShutdown is called by one thread, or by two in the runs of ConcurrentRuns
ConcurrentRuns ==
    /\ args \in {ArgsOf({}), ArgsOf({"reindex"})}
    /\ disk \in {EmptyDisk,
                 [index |-> "ok", txindex |-> FALSE, havePruned |-> FALSE, coins |-> "ok",
                  version |-> UpgradeVersion]}

InitLife ==
    /\ \/ InitRuns /\ bootstrapDat = FALSE
       \/ ImportRuns
    /\ \/ callers = {"t1"}
       \/ ConcurrentRuns /\ callers = ShutdownThreads
    /\ disk0 = disk
    /\ files0 = [blk |-> blkFiles, rev |-> revFiles]
    /\ faulted = FALSE
    /\ fReindex = FALSE
    /\ fTxIndex = FALSE
    /\ fHavePruned = FALSE
    /\ nPreviousVersion = UpgradeVersion
    /\ mapBlockIndex = "empty"
    /\ chainTip = "none"
    /\ ptr = [o \in Objs |-> "null"]
    /\ viewBase = [v \in Views |-> "none"]
    /\ everBuilt = {}
    /\ g_connman = "null"
    /\ fFeeEstimatesInitialized = FALSE
    /\ vpwallets = FALSE
    /\ fRequestShutdown = FALSE
    /\ fHaveGenesis = FALSE
    /\ genesisWaitConnected = FALSE
    /\ fDumpMempoolLater = FALSE
    /\ rpcWarmup = "off"
    /\ procState = "running"
    /\ pcMain = "step4a"
    /\ ret = "none"
    /\ fLoaded = FALSE
    /\ fReset = FALSE
    /\ strLoadError = ""
    /\ upgradeOnceOnly = TRUE
    /\ upgradeCalls = 0
    /\ attempts = 0
    /\ creations = 0
    /\ questions = 0
    /\ answer = "none"
    /\ pcImport = "idle"
    /\ nFile = 0
    /\ visited = <<>>
    /\ openFailed = FALSE
    /\ imported = <<>>
    /\ lookup = NoLookup
    /\ pcSh = [t \in ShutdownThreads |-> "idle"]
    /\ callId = [t \in ShutdownThreads |-> 0]
    /\ nCalls = 0
    /\ csShutdown = "none"
    /\ overlapped = FALSE
    /\ partiallyEraseDatadirOnShutdown = FALSE
    /\ fullyEraseDatadirOnShutdown = FALSE
    /\ erased = {}
    /\ log = <<>>

Init ==
    /\ InitLife
    /\ par = [pc |-> "off"]
    /\ cache = [pc |-> "off"]
    /\ net = [pc |-> "off"]
    /\ TestsIdle
    /\ RulesIdle

AppInitMain ==
    \/ AppInitMain_Step4a
    \/ AppInitMain_Step6
    \/ AppInitMain_Step7
    \/ LoadLoop_While
    \/ LoadLoop_DeleteMain
    \/ LoadLoop_NewMain
    \/ LoadLoop_DeleteWit
    \/ LoadLoop_NewWit
    \/ LoadLoop_ReindexOrUpgrade
    \/ LoadLoop_UpgradeResync
    \/ LoadLoop_LoadIndex
    \/ LoadLoop_UpgradeIndex
    \/ LoadLoop_Genesis
    \/ LoadLoop_InitIndex
    \/ LoadLoop_TxIndex
    \/ LoadLoop_Prune
    \/ LoadLoop_Rewind
    \/ LoadLoop_Future
    \/ LoadLoop_Verify
    \/ LoadLoop_Failed
    \/ AppInitMain_AfterLoad
    \/ AppInitMain_Step8
    \/ AppInitMain_Step10
    \/ AppInitMain_WaitGenesis
    \/ AppInitMain_Step11
    \/ AppInitMain_Step12

ThreadImport ==
    \/ ThreadImport_Start
    \/ ThreadImport_ScanFile
    \/ ThreadImport_ScanDone
    \/ ThreadImport_Bootstrap
    \/ ThreadImport_LoadBlock
    \/ ThreadImport_Activate
    \/ ThreadImport_Finish

Next ==
    \/ AppInitMain
    \/ ThreadImport
    \/ RequestShutdown
    \/ SetEraseDirective
    \/ \E t \in ShutdownThreads : CoreInterrupt(t)
    \/ \E t \in ShutdownThreads : CoreShutdown(t)

Spec == Init /\ [][Next]_vars

(***************************************************************************)
(* The lifecycle on an empty data directory, with the main thread and the  *)
(* import thread scheduled fairly.  Nothing obliges the user to ask for a  *)
(* shutdown or a thread to call CoreShutdown.                              *)
(***************************************************************************)
InitEmpty ==
    /\ Init
    /\ disk = EmptyDisk
    /\ callers = {"t1"}

SpecFair == InitEmpty /\ [][Next]_vars /\ WF_vars(AppInitMain) /\ WF_vars(ThreadImport)

(***************************************************************************)
(* The import worker over several processes on one data directory.  Each   *)
(* process is taken from the point where AppInitMain has loaded the chain  *)
(* and created ThreadImport; when the worker has ended, a later process    *)
(* may be started on what the earlier one left.  imported keeps the        *)
(* sources of all processes, with an entry "process" where one starts.     *)
(***************************************************************************)
\* how many later processes are started
MaxProcesses == 2

Processes == Cardinality({i \in 1..Len(imported) : imported[i].src = "process"})

\* AppInitMain of a process with a chain on disk has created ThreadImport
InitImport ==
    /\ \E files \in LoadBlockLists : args = [ArgsOf({}) EXCEPT !.loadblock = files]
    /\ disk = [index |-> "ok", txindex |-> FALSE, havePruned |-> FALSE, coins |-> "ok",
               version |-> UpgradeVersion]
    /\ disk0 = disk
    /\ blkFiles = {0}
    /\ revFiles = {0}
    /\ files0 = [blk |-> blkFiles, rev |-> revFiles]
    /\ bootstrapDat \in BOOLEAN
    /\ faulted = FALSE
    /\ fReindex \in BOOLEAN
    /\ fTxIndex = FALSE
    /\ fHavePruned = FALSE
    /\ nPreviousVersion = UpgradeVersion
    /\ mapBlockIndex = (IF fReindex THEN "empty" ELSE "ok")
    /\ chainTip = (IF fReindex THEN "none" ELSE "ok")
    /\ ptr = [o \in Objs |-> "live"]
    /\ viewBase = [v \in Views |-> "catcher"]
    /\ everBuilt = Objs
    /\ g_connman = "created"
    /\ fFeeEstimatesInitialized = TRUE
    /\ vpwallets = TRUE
    /\ fRequestShutdown = FALSE
    /\ fHaveGenesis = ~fReindex
    /\ genesisWaitConnected = fReindex
    /\ fDumpMempoolLater = FALSE
    /\ rpcWarmup = "warmup"
    /\ procState = "running"
    /\ pcMain = "waitGenesis"
    /\ ret = "none"
    /\ fLoaded = TRUE
    /\ fReset = FALSE
    /\ strLoadError = ""
    /\ upgradeOnceOnly = TRUE
    /\ upgradeCalls = 0
    /\ attempts = 1
    /\ creations = 1
    /\ questions = 0
    /\ answer = "none"
    /\ pcImport = "start"
    /\ nFile = 0
    /\ visited = <<>>
    /\ openFailed = FALSE
    /\ imported = <<>>
    /\ lookup = NoLookup
    /\ callers = {"t1"}
    /\ pcSh = [t \in ShutdownThreads |-> "idle"]
    /\ callId = [t \in ShutdownThreads |-> 0]
    /\ nCalls = 0
    /\ csShutdown = "none"
    /\ overlapped = FALSE
    /\ partiallyEraseDatadirOnShutdown = FALSE
    /\ fullyEraseDatadirOnShutdown = FALSE
    /\ erased = {}
    /\ log = <<>>
    /\ par = [pc |-> "off"]
    /\ cache = [pc |-> "off"]
    /\ net = [pc |-> "off"]
    /\ TestsIdle
    /\ RulesIdle

\* the process has ended and the node is started again: AppInitMain of the new
\* process creates ThreadImport on the data directory as it was left
LaterProcess ==
    /\ pcImport = "done" \/ procState # "running"
    /\ Processes < MaxProcesses
    /\ \E reindex \in BOOLEAN :
         /\ fReindex' = reindex
         /\ chainTip' = (IF reindex THEN "none" ELSE "ok")
         /\ mapBlockIndex' = (IF reindex THEN "empty" ELSE "ok")
         /\ fHaveGenesis' = ~reindex
         /\ genesisWaitConnected' = reindex
    /\ procState' = "running"
    /\ pcImport' = "start"
    /\ nFile' = 0
    /\ visited' = <<>>
    /\ openFailed' = FALSE
    /\ lookup' = NoLookup
    /\ fRequestShutdown' = FALSE
    /\ fDumpMempoolLater' = FALSE
    /\ imported' = Append(imported, Source("process", Processes + 1, TRUE))
    /\ UNCHANGED <<inputVars, diskVars, fTxIndex, fHavePruned, nPreviousVersion, objVars,
                   svcVars, loopVars, mainVars, bootstrapDat, shutVars, pureVars>>

SpecImport == InitImport /\ [][ThreadImport \/ LaterProcess]_vars

(***************************************************************************)
(* AppInitParameterInteraction, step 2.  The arguments are a map from the  *)
(* names that are set to their values; par.user keeps what the user gave.  *)
(* Memory is counted in bytes, file descriptors in descriptors.            *)
(***************************************************************************)
Settings == {"maxconnections", "maxmempool", "dbcache", "rpcthreads", "reverseheaders"}

\* 1*1024*1024*1024ULL
GiB == 1073741824
MIN_CORE_FILEDESCRIPTORS == 150
MAX_ADDNODE_CONNECTIONS == 8
FD_SETSIZE == 1024
DEFAULT_MAX_PEER_CONNECTIONS == 125
DEFAULT_MAX_MEMPOOL_SIZE_LOWMEM == 100

Max(a, b) == IF a >= b THEN a ELSE b
Min(a, b) == IF a <= b THEN a ELSE b

\* the argument map: the names that are set, and their values
IsArgSet(m, k) == k \in m.set
GetArg(m, k, default) == IF IsArgSet(m, k) THEN m.val[k] ELSE default
\* SoftSetArg: sets the argument unless it already has a value
SoftSetArg(m, k, v) ==
    IF IsArgSet(m, k) THEN m
    ELSE [set |-> m.set \cup {k}, val |-> [m.val EXCEPT ![k] = v]]
\* the names a series of SoftSetArg calls sets: those that had no value
SoftSetReturnsTrue(m, k) == ~IsArgSet(m, k)

\* the values AppInitParameterInteraction gives on a low-memory host; -reverseheaders
\* is a boolean argument, stored as 0 or 1
LowMemoryValue(k) ==
    CASE k = "maxconnections" -> 40
      [] k = "maxmempool"     -> DEFAULT_MAX_MEMPOOL_SIZE_LOWMEM
      [] k = "dbcache"        -> 200
      [] k = "rpcthreads"     -> 1
      [] k = "reverseheaders" -> 0

\* what a user may give for each setting
UserValues(k) ==
    CASE k = "maxconnections" -> {-1, 0, 30, 300}
      [] k = "maxmempool"     -> {50}
      [] k = "dbcache"        -> {1000}
      [] k = "rpcthreads"     -> {4}
      [] k = "reverseheaders" -> {1}

\* what RaiseFileDescriptorLimit may return, whatever was asked for
FdOutcomes == {100, 150, 163, 2048}

ParamAt(p) == par.pc = p

\* a host that would never count as low on memory
LowMemory_Never == FALSE

\* if (systemPhysicalMemoryInBytes() <= 1*1024*1024*1024ULL)
LowMemory == par.mem <= GiB

\* -prune with -txindex is rejected; nBind, nUserMaxConnections, nMaxConnections
ParameterInteraction_Start ==
    /\ ParamAt("start")
    /\ IF par.prune /\ par.txindex
       THEN par' = [par EXCEPT !.pc = "done", !.result = "error"]
       ELSE par' = [par EXCEPT
                      !.pc = "lowmem",
                      !.nBind = Max(par.nBindArgs, 1),
                      !.nUserMaxConnections =
                          GetArg(par.mapArgs, "maxconnections", DEFAULT_MAX_PEER_CONNECTIONS),
                      !.nMaxConnections =
                          Max(GetArg(par.mapArgs, "maxconnections",
                                     DEFAULT_MAX_PEER_CONNECTIONS), 0)]
    /\ UNCHANGED <<lifeVars, cache, net, signal, subsidy, scan, rules>>

\* the low-memory block: five SoftSetArg calls, each with its warning
ParameterInteraction_LowMemory ==
    /\ ParamAt("lowmem")
    /\ IF LowMemory
       THEN LET m0 == par.mapArgs
                m1 == SoftSetArg(m0, "maxconnections", LowMemoryValue("maxconnections"))
                m2 == SoftSetArg(m1, "maxmempool", LowMemoryValue("maxmempool"))
                m3 == SoftSetArg(m2, "dbcache", LowMemoryValue("dbcache"))
                m4 == SoftSetArg(m3, "rpcthreads", LowMemoryValue("rpcthreads"))
                m5 == SoftSetArg(m4, "reverseheaders", LowMemoryValue("reverseheaders"))
            IN  par' = [par EXCEPT
                          !.pc = "fd",
                          !.mapArgs = m5,
                          !.warnings = {k \in Settings : SoftSetReturnsTrue(m0, k)}]
       ELSE par' = [par EXCEPT !.pc = "fd"]
    /\ UNCHANGED <<lifeVars, cache, net, signal, subsidy, scan, rules>>

\* int nSystemMaxConnections = FD_SETSIZE; if getrlimit succeeds, rlim.rlim_cur
SystemMaxConnections(rlimit) == IF rlimit.err THEN FD_SETSIZE ELSE rlimit.cur

\* a trim that forgets the descriptors of the listeners
TrimToSystem_IgnoresBind(nMax, nSystemMaxConnections, nBind) ==
    Max(Min(nMax, nSystemMaxConnections - MIN_CORE_FILEDESCRIPTORS
                    - MAX_ADDNODE_CONNECTIONS), 0)

\* std::max(std::min(nMaxConnections, nSystemMaxConnections - nBind
\*                   - MIN_CORE_FILEDESCRIPTORS - MAX_ADDNODE_CONNECTIONS), 0)
TrimToSystem(nMax, nSystemMaxConnections, nBind) ==
    Max(Min(nMax, nSystemMaxConnections - nBind - MIN_CORE_FILEDESCRIPTORS
                    - MAX_ADDNODE_CONNECTIONS), 0)

\* nMaxConnections is trimmed to the descriptors of the system; nFD
ParameterInteraction_FileDescriptors ==
    /\ ParamAt("fd")
    /\ \E nFD \in FdOutcomes :
         LET nSystemMaxConnections == SystemMaxConnections(par.rlimit)
             trimmed == TrimToSystem(par.nMaxConnections, nSystemMaxConnections, par.nBind)
             final == Min(nFD - MIN_CORE_FILEDESCRIPTORS - MAX_ADDNODE_CONNECTIONS, trimmed)
         IN  IF nFD < MIN_CORE_FILEDESCRIPTORS
             THEN par' = [par EXCEPT !.pc = "done", !.result = "error", !.nFD = nFD,
                                     !.nMaxConnections = trimmed]
             ELSE par' = [par EXCEPT
                            !.pc = "step3",
                            !.nFD = nFD,
                            !.nMaxConnections = final,
                            !.warnings = IF final < par.nUserMaxConnections
                                         THEN @ \cup {"fd"} ELSE @]
    /\ UNCHANGED <<lifeVars, cache, net, signal, subsidy, scan, rules>>

\* step 3 reads the other parameters and returns true, or InitError for one of them
ParameterInteraction_Step3 ==
    /\ ParamAt("step3")
    /\ \E ok \in BOOLEAN :
         par' = [par EXCEPT !.pc = "done", !.result = IF ok THEN "true" ELSE "error"]
    /\ UNCHANGED <<lifeVars, cache, net, signal, subsidy, scan, rules>>

AppInitParameterInteraction ==
    \/ ParameterInteraction_Start
    \/ ParameterInteraction_LowMemory
    \/ ParameterInteraction_FileDescriptors
    \/ ParameterInteraction_Step3

\* the lifecycle before AppInitMain is entered
LifeIdle ==
    /\ InitLife
    /\ args = ArgsOf({})
    /\ disk = EmptyDisk
    /\ callers = {"t1"}

\* the argument maps a user can give: any of the settings, each with one of its values
UserArgs ==
    {[set |-> S,
      val |-> [k \in Settings |-> IF k \notin S THEN 0
                                  ELSE IF k = "maxconnections" THEN c
                                  ELSE CHOOSE x \in UserValues(k) : TRUE]] :
        S \in SUBSET Settings, c \in UserValues("maxconnections")}

InitParam ==
    /\ LifeIdle
    /\ TestsIdle
    /\ RulesIdle
    /\ cache = [pc |-> "off"]
    /\ net = [pc |-> "off"]
    /\ \E m \in UserArgs,
          mem \in {GiB - 1, GiB, GiB + 1},
          pt \in {<<FALSE, FALSE>>, <<TRUE, FALSE>>, <<TRUE, TRUE>>},
          nb \in 0..2,
          rl \in {[err |-> TRUE, cur |-> 0], [err |-> FALSE, cur |-> 100],
                  [err |-> FALSE, cur |-> 160], [err |-> FALSE, cur |-> 4096]} :
         par = [pc |-> "start", user |-> m, mapArgs |-> m, mem |-> mem,
                prune |-> pt[1], txindex |-> pt[2], nBindArgs |-> nb, rlimit |-> rl,
                nBind |-> 0, nUserMaxConnections |-> 0, nMaxConnections |-> 0, nFD |-> 0,
                warnings |-> {}, result |-> "none"]

SpecParam == InitParam /\ [][AppInitParameterInteraction]_vars

(***************************************************************************)
(* The cache size calculation of AppInitMain, step 7.  Sizes are counted   *)
(* in units of 64 bytes, so that the largest total (16384 MiB) and the     *)
(* mempool budget (a multiple of 1000000 bytes) are both whole numbers     *)
(* below 2^31.  Every size of the calculation is a multiple of 2^15 bytes, *)
(* so the divisions by 8, 4 and 2 are exact in either unit.                *)
(***************************************************************************)
\* x << 20, in units
MiB == 16384
\* x * 1000000, in units
MB == 15625
\* 1 << 23, in units
CoinDBCacheBonus == 131072

nMinDbCache == 4
nMaxDbCache == 16384
nDefaultDbCache == 450
nMaxBlockDBCache == 2
nMaxBlockDBAndTxIndexCache == 1024
nMaxCoinsDBCache == 8
DEFAULT_MAX_MEMPOOL_SIZE == 300

\* how far apart the two totals of one comparison lie
MaxGap == 1

\* a split that takes the mempool budget out of the in-memory cache
CacheSizes_MempoolInside(dbcache, txindex, maxmempool) ==
    LET nTotalCache0 == Min(Max(dbcache * MiB, nMinDbCache * MiB), nMaxDbCache * MiB)
        nBlockTreeDBCache ==
            Min(nTotalCache0 \div 8,
                (IF txindex THEN nMaxBlockDBAndTxIndexCache ELSE nMaxBlockDBCache) * MiB)
        nTotalCache1 == nTotalCache0 - nBlockTreeDBCache
        nCoinDBCache ==
            Min(Min(nTotalCache1 \div 2, (nTotalCache1 \div 4) + CoinDBCacheBonus),
                nMaxCoinsDBCache * MiB)
        nTotalCache2 == nTotalCache1 - nCoinDBCache
        nMempoolSizeMax == Min(maxmempool * MB, nTotalCache2)
    IN  [nTotalCache       |-> nTotalCache0,
         nBlockTreeDBCache |-> nBlockTreeDBCache,
         nCoinDBCache      |-> nCoinDBCache,
         nCoinCacheUsage   |-> nTotalCache2 - nMempoolSizeMax,
         nMempoolSizeMax   |-> nMempoolSizeMax]

\* a split that subtracts the wrong way round for the in-memory cache
CacheSizes_WrongWayRound(dbcache, txindex, maxmempool) ==
    LET nTotalCache0 == Min(Max(dbcache * MiB, nMinDbCache * MiB), nMaxDbCache * MiB)
        nBlockTreeDBCache ==
            Min(nTotalCache0 \div 8,
                (IF txindex THEN nMaxBlockDBAndTxIndexCache ELSE nMaxBlockDBCache) * MiB)
        nTotalCache1 == nTotalCache0 - nBlockTreeDBCache
        nCoinDBCache ==
            Min(Min(nTotalCache1 \div 2, (nTotalCache1 \div 4) + CoinDBCacheBonus),
                nMaxCoinsDBCache * MiB)
        nTotalCache2 == nCoinDBCache - nTotalCache1
    IN  [nTotalCache       |-> nTotalCache0,
         nBlockTreeDBCache |-> nBlockTreeDBCache,
         nCoinDBCache      |-> nCoinDBCache,
         nCoinCacheUsage   |-> nTotalCache2,
         nMempoolSizeMax   |-> maxmempool * MB]

\* nTotalCache .. nMempoolSizeMax for -dbcache, -txindex and -maxmempool
CacheSizes(dbcache, txindex, maxmempool) ==
    LET nTotalCache0 == Min(Max(dbcache * MiB, nMinDbCache * MiB), nMaxDbCache * MiB)
        nBlockTreeDBCache ==
            Min(nTotalCache0 \div 8,
                (IF txindex THEN nMaxBlockDBAndTxIndexCache ELSE nMaxBlockDBCache) * MiB)
        nTotalCache1 == nTotalCache0 - nBlockTreeDBCache
        nCoinDBCache ==
            Min(Min(nTotalCache1 \div 2, (nTotalCache1 \div 4) + CoinDBCacheBonus),
                nMaxCoinsDBCache * MiB)
        nTotalCache2 == nTotalCache1 - nCoinDBCache
    IN  [nTotalCache       |-> nTotalCache0,
         nBlockTreeDBCache |-> nBlockTreeDBCache,
         nCoinDBCache      |-> nCoinDBCache,
         nCoinCacheUsage   |-> nTotalCache2,
         nMempoolSizeMax   |-> maxmempool * MB]

\* two starts of the node that differ in -dbcache only
AppInitMain_CacheSizes ==
    /\ cache.pc = "start"
    /\ cache' = [cache EXCEPT
                   !.pc = "done",
                   !.out = [i \in 1..2 |->
                              CacheSizes(IF cache.dbcacheSet[i] THEN cache.dbcache[i]
                                         ELSE nDefaultDbCache,
                                         cache.txindex,
                                         IF cache.maxmempoolSet THEN cache.maxmempool
                                         ELSE DEFAULT_MAX_MEMPOOL_SIZE)]]
    /\ UNCHANGED <<lifeVars, par, net, signal, subsidy, scan, rules>>

NoSizes == [nTotalCache |-> 0, nBlockTreeDBCache |-> 0, nCoinDBCache |-> 0,
            nCoinCacheUsage |-> 0, nMempoolSizeMax |-> 0]

\* every -dbcache from just below the minimum to just above the maximum, and no
\* -dbcache at all, each with a second total that is as large or larger
InitCache ==
    /\ LifeIdle
    /\ TestsIdle
    /\ RulesIdle
    /\ par = [pc |-> "off"]
    /\ net = [pc |-> "off"]
    /\ \E t1 \in (nMinDbCache - 1) .. (nMaxDbCache + 1),
          far \in BOOLEAN,
          gap \in 0 .. MaxGap,
          set1 \in BOOLEAN,
          tx \in BOOLEAN,
          mp \in {0, LowMemoryValue("maxmempool")} :
         /\ far => gap = 0
         /\ ~set1 => (t1 = nDefaultDbCache /\ gap = 0 /\ ~far)
         /\ cache = [pc |-> "start",
                     dbcacheSet |-> <<set1, TRUE>>,
                     dbcache |-> <<t1, IF far THEN nMaxDbCache + 1 ELSE t1 + gap>>,
                     txindex |-> tx,
                     maxmempoolSet |-> (mp # 0),
                     maxmempool |-> mp,
                     out |-> <<NoSizes, NoSizes>>]

SpecCache == InitCache /\ [][AppInitMain_CacheSizes]_vars

(***************************************************************************)
(* AppInitMain step 6: binding the listeners.  An address of -bind or      *)
(* -whitebind is described by what the collaborators do with it: whether   *)
(* Lookup resolves it, the port it carries (0: none given), whether the    *)
(* network is limited, and what BindListenPort does ("ok", "fail", or      *)
(* "throw" for an exception).                                              *)
(***************************************************************************)
\* how many addresses -bind names
MaxBind == 2
\* how many addresses -whitebind names
MaxWhiteBind == 1

BindOutcomes == {"ok", "fail", "throw"}

Address(resolves, port, limited, outcome) ==
    [resolves |-> resolves, port |-> port, limited |-> limited, outcome |-> outcome]

BindFlags(explicit, report, whitelist) ==
    [BF_EXPLICIT |-> explicit, BF_REPORT_ERROR |-> report, BF_WHITELIST |-> whitelist]

BF_NONE == BindFlags(FALSE, FALSE, FALSE)

\* a Bind that reports success whatever BindListenPort says
Bind_Optimistic(addr, flags) ==
    IF ~flags.BF_EXPLICIT /\ addr.limited
    THEN [ret |-> FALSE, tried |-> 0, bound |-> 0, reported |-> 0, threw |-> FALSE]
    ELSE [ret |-> TRUE, tried |-> 1, bound |-> IF addr.outcome = "ok" THEN 1 ELSE 0,
          reported |-> 0, threw |-> addr.outcome = "throw"]

\* bool Bind(connman, addr, flags): ret is what it returns, tried and bound count the
\* calls of BindListenPort and those that bound a listener, reported the InitError
\* it raised, threw tells that BindListenPort ended with an exception
Bind(addr, flags) ==
    IF ~flags.BF_EXPLICIT /\ addr.limited
    THEN [ret |-> FALSE, tried |-> 0, bound |-> 0, reported |-> 0, threw |-> FALSE]
    ELSE CASE addr.outcome = "ok" ->
                [ret |-> TRUE, tried |-> 1, bound |-> 1, reported |-> 0, threw |-> FALSE]
           [] addr.outcome = "fail" ->
                [ret |-> FALSE, tried |-> 1, bound |-> 0,
                 reported |-> IF flags.BF_REPORT_ERROR THEN 1 ELSE 0, threw |-> FALSE]
           [] addr.outcome = "throw" ->
                [ret |-> FALSE, tried |-> 1, bound |-> 0, reported |-> 0, threw |-> TRUE]

NetAt(p) == net.pc = p

\* return InitError(..), also from the catch(...) block
NetInitError == [net EXCEPT !.pc = "done", !.ret = "error", !.errors = @ + 1]

\* the effect of fBound |= Bind(connman, addr, flags) on the step
AfterBind(n, b) == [n EXCEPT !.fBound = @ \/ b.ret, !.tried = @ + b.tried,
                             !.bound = @ + b.bound, !.errors = @ + b.reported]

\* fListen = GetBoolArg("-listen", DEFAULT_LISTEN);  try { if (fListen) { bool fBound = false;
BindStep_Listen ==
    /\ NetAt("listen")
    /\ net' = IF net.fListen
              THEN [net EXCEPT !.pc = "bind", !.i = 1, !.fBound = FALSE]
              ELSE [net EXCEPT !.pc = "done", !.ret = "proceed"]
    /\ UNCHANGED <<lifeVars, par, cache, signal, subsidy, scan, rules>>

\* one iteration of for (strBind : GetArgs("-bind")): Lookup, then
\* fBound |= Bind(connman, addrBind, BF_EXPLICIT | BF_REPORT_ERROR)
BindStep_Bind ==
    /\ NetAt("bind")
    /\ IF net.i > Len(net.binds)
       THEN net' = [net EXCEPT !.pc = "whitebind", !.i = 1]
       ELSE LET addr == net.binds[net.i]
                b    == Bind(addr, BindFlags(TRUE, TRUE, FALSE))
            IN  IF ~addr.resolves
                THEN net' = NetInitError
                ELSE IF b.threw
                THEN net' = [AfterBind(net, b) EXCEPT !.pc = "done", !.ret = "error",
                                                      !.errors = @ + 1]
                ELSE net' = [AfterBind(net, b) EXCEPT !.i = @ + 1]
    /\ UNCHANGED <<lifeVars, par, cache, signal, subsidy, scan, rules>>

\* one iteration of for (strBind : GetArgs("-whitebind")): Lookup, the port must be
\* given, then fBound |= Bind(.., BF_EXPLICIT | BF_REPORT_ERROR | BF_WHITELIST)
BindStep_WhiteBind ==
    /\ NetAt("whitebind")
    /\ IF net.i > Len(net.whitebinds)
       THEN net' = [net EXCEPT !.pc = "default"]
       ELSE LET addr == net.whitebinds[net.i]
                b    == Bind(addr, BindFlags(TRUE, TRUE, TRUE))
            IN  IF ~addr.resolves \/ addr.port = 0
                THEN net' = NetInitError
                ELSE IF b.threw
                THEN net' = [AfterBind(net, b) EXCEPT !.pc = "done", !.ret = "error",
                                                      !.errors = @ + 1]
                ELSE net' = [AfterBind(net, b) EXCEPT !.i = @ + 1]
    /\ UNCHANGED <<lifeVars, par, cache, signal, subsidy, scan, rules>>

\* if (!IsArgSet("-bind") && !IsArgSet("-whitebind")) {
\*   fBound |= Bind(connman, IN6ADDR_ANY, BF_NONE);
\*   fBound |= Bind(connman, INADDR_ANY, !fBound ? BF_REPORT_ERROR : BF_NONE); }
BindStep_Default ==
    /\ NetAt("default")
    /\ IF net.binds # <<>> \/ net.whitebinds # <<>>
       THEN net' = [net EXCEPT !.pc = "check"]
       ELSE LET b6 == Bind(net.any6, BF_NONE)
                n6 == AfterBind(net, b6)
                b4 == Bind(net.any4, IF ~n6.fBound THEN BindFlags(FALSE, TRUE, FALSE)
                                     ELSE BF_NONE)
                n4 == AfterBind(n6, b4)
            IN  IF b6.threw
                THEN net' = [n6 EXCEPT !.pc = "done", !.ret = "error", !.errors = @ + 1]
                ELSE IF b4.threw
                THEN net' = [n4 EXCEPT !.pc = "done", !.ret = "error", !.errors = @ + 1]
                ELSE net' = [n4 EXCEPT !.pc = "check"]
    /\ UNCHANGED <<lifeVars, par, cache, signal, subsidy, scan, rules>>

\* if (!fBound) return InitError("Failed to listen on any port. ...");
BindStep_Check ==
    /\ NetAt("check")
    /\ net' = IF ~net.fBound THEN NetInitError
              ELSE [net EXCEPT !.pc = "done", !.ret = "proceed"]
    /\ UNCHANGED <<lifeVars, par, cache, signal, subsidy, scan, rules>>

AppInitMain_BindListeners ==
    \/ BindStep_Listen
    \/ BindStep_Bind
    \/ BindStep_WhiteBind
    \/ BindStep_Default
    \/ BindStep_Check

RECURSIVE SeqsUpTo(_, _)
\* the sequences over S of length at most n
SeqsUpTo(S, n) ==
    IF n = 0 THEN {<<>>}
    ELSE LET shorter == SeqsUpTo(S, n - 1)
         IN  shorter \cup {Append(q, x) : q \in {r \in shorter : Len(r) = n - 1}, x \in S}

\* the addresses -bind can name (the port defaults to the listen port)
BindAddresses == {Address(r, 1, FALSE, o) : r \in BOOLEAN, o \in BindOutcomes}

\* the addresses -whitebind can name
WhiteBindAddresses == {Address(r, pt, FALSE, o) : r \in BOOLEAN, pt \in 0..1, o \in BindOutcomes}

\* the wildcard addresses of the default bind
AnyAddresses == {Address(TRUE, 1, l, o) : l \in BOOLEAN, o \in BindOutcomes}

InitBind ==
    /\ LifeIdle
    /\ TestsIdle
    /\ RulesIdle
    /\ par = [pc |-> "off"]
    /\ cache = [pc |-> "off"]
    /\ \E listen \in BOOLEAN,
          binds \in SeqsUpTo(BindAddresses, MaxBind),
          whitebinds \in SeqsUpTo(WhiteBindAddresses, MaxWhiteBind),
          a6 \in AnyAddresses, a4 \in AnyAddresses :
         /\ (binds # <<>> \/ whitebinds # <<>>)
               => (a6 = Address(TRUE, 1, FALSE, "ok") /\ a4 = a6)
         /\ net = [pc |-> "listen", fListen |-> listen, binds |-> binds,
                   whitebinds |-> whitebinds, any6 |-> a6, any4 |-> a4, i |-> 0,
                   fBound |-> FALSE, tried |-> 0, bound |-> 0, errors |-> 0,
                   ret |-> "none"]

SpecBind == InitBind /\ [][AppInitMain_BindListeners]_vars

\* the total asked for, when it lies within [nMinDbCache, nMaxDbCache]
Requested(i) == IF cache.dbcacheSet[i] THEN cache.dbcache[i] ELSE nDefaultDbCache
InRange(i) == nMinDbCache <= Requested(i) /\ Requested(i) <= nMaxDbCache

\* C6: on a host with less than 1 GiB of physical memory, once the low-memory block of
\* AppInitParameterInteraction has run, each of the five settings the user did not
\* give has its reduced value (40, the reduced mempool constant, 200, 1, off), and
\* each one the user gave has exactly the user's value.
C6_LowMemorySettings ==
    (par.pc \in {"fd", "step3", "done"} /\ ~(par.prune /\ par.txindex) /\ par.mem < GiB)
    => \A k \in Settings :
         /\ IsArgSet(par.mapArgs, k)
         /\ par.mapArgs.val[k] = IF IsArgSet(par.user, k) THEN par.user.val[k]
                                 ELSE LowMemoryValue(k)

C6_Witness ==
    /\ par.pc = "done"
    /\ par.result = "true"
    /\ par.mem < GiB
    /\ par.user.set = {"dbcache", "rpcthreads"}
    /\ par.mapArgs.val = [k \in Settings |->
                            CASE k = "maxconnections" -> 40
                              [] k = "maxmempool"     -> DEFAULT_MAX_MEMPOOL_SIZE_LOWMEM
                              [] k = "dbcache"        -> 1000
                              [] k = "rpcthreads"     -> 4
                              [] k = "reverseheaders" -> 0]
    /\ par.warnings \cap Settings = {"maxconnections", "maxmempool", "reverseheaders"}

\* C7, as stated: for every requested total within [nMinDbCache, nMaxDbCache] the
\* block-index cache, the chain-state cache, the in-memory cache and the mempool
\* budget together are at most the total, and none is negative or above its cap.
C7_FourWithinTotal ==
    (cache.pc = "done" /\ InRange(1)) =>
        LET o == cache.out[1]
        IN  /\ o.nBlockTreeDBCache + o.nCoinDBCache + o.nCoinCacheUsage
                 + o.nMempoolSizeMax <= Requested(1) * MiB
            /\ o.nBlockTreeDBCache >= 0 /\ o.nCoinDBCache >= 0
            /\ o.nCoinCacheUsage >= 0 /\ o.nMempoolSizeMax >= 0
            /\ o.nBlockTreeDBCache <= (IF cache.txindex THEN nMaxBlockDBAndTxIndexCache
                                       ELSE nMaxBlockDBCache) * MiB
            /\ o.nCoinDBCache <= nMaxCoinsDBCache * MiB

\* C7, amended: the block-index cache, the chain-state cache and the in-memory cache
\* together are exactly the total, none is negative or above its cap, and the mempool
\* budget is -maxmempool times 1000000 bytes whatever the total is.
C7_ThreeMakeTotal ==
    (cache.pc = "done" /\ InRange(1)) =>
        LET o == cache.out[1]
        IN  /\ o.nBlockTreeDBCache + o.nCoinDBCache + o.nCoinCacheUsage = Requested(1) * MiB
            /\ o.nTotalCache = Requested(1) * MiB
            /\ o.nBlockTreeDBCache >= 0 /\ o.nCoinDBCache >= 0 /\ o.nCoinCacheUsage >= 0
            /\ o.nBlockTreeDBCache <= (IF cache.txindex THEN nMaxBlockDBAndTxIndexCache
                                       ELSE nMaxBlockDBCache) * MiB
            /\ o.nBlockTreeDBCache <= o.nTotalCache \div 8
            /\ o.nCoinDBCache <= nMaxCoinsDBCache * MiB
            /\ o.nMempoolSizeMax = (IF cache.maxmempoolSet THEN cache.maxmempool
                                    ELSE DEFAULT_MAX_MEMPOOL_SIZE) * MB

C7_Witness ==
    /\ cache.pc = "done"
    /\ cache.dbcacheSet[1] /\ cache.dbcache[1] = 200
    /\ ~cache.txindex
    /\ cache.maxmempoolSet /\ cache.maxmempool = DEFAULT_MAX_MEMPOOL_SIZE_LOWMEM
    /\ cache.out[1] = [nTotalCache       |-> 200 * MiB,
                       nBlockTreeDBCache |-> 2 * MiB,
                       nCoinDBCache      |-> 8 * MiB,
                       nCoinCacheUsage   |-> 190 * MiB,
                       nMempoolSizeMax   |-> 100 * MB]

\* C8: for two totals T1 <= T2 within [nMinDbCache, nMaxDbCache] and the same -txindex,
\* none of the block-index cache, the chain-state cache and the in-memory cache
\* computed for T1 is larger than the one computed for T2.
C8_SplitIsMonotone ==
    (cache.pc = "done" /\ InRange(1) /\ InRange(2) /\ Requested(1) <= Requested(2)) =>
        /\ cache.out[1].nBlockTreeDBCache <= cache.out[2].nBlockTreeDBCache
        /\ cache.out[1].nCoinDBCache <= cache.out[2].nCoinDBCache
        /\ cache.out[1].nCoinCacheUsage <= cache.out[2].nCoinCacheUsage

C8_Witness ==
    /\ cache.pc = "done"
    /\ cache.txindex
    /\ cache.dbcacheSet[1]
    /\ cache.dbcache = <<8192, 8193>>
    /\ cache.out[1].nBlockTreeDBCache = cache.out[2].nBlockTreeDBCache
    /\ cache.out[1].nCoinDBCache = cache.out[2].nCoinDBCache
    /\ cache.out[1].nCoinCacheUsage < cache.out[2].nCoinCacheUsage

(***************************************************************************)
(* Properties of the lifecycle.                                            *)
(***************************************************************************)
TeardownEvents == {"netStop", "stopRPC", "joinAll", "walletFlushSoft", "netDelete",
                   "dumpMempool", "dumpFeeEstimates", "flush", "closeBlockFiles",
                   "releaseMain", "releaseWitness", "releaseBlockTree",
                   "walletFlushFinal", "unregisterSubscribers", "eccStop",
                   "erasePartial", "eraseFull"}

TimesRun(ev) == Cardinality({i \in 1..Len(log) : log[i].ev = ev})

\* C1: when two calls of CoreShutdown overlap, no teardown step is executed more than
\* once in total, and all the steps executed belong to one call (the other call
\* returned without performing any).
C1_EveryStepOnce ==
    overlapped =>
        /\ \A ev \in TeardownEvents : TimesRun(ev) <= 1
        /\ \A i, j \in 1..Len(log) : log[i].call = log[j].call

\* C2: through the facade of either view, GetCoin returns false only when the backing
\* store reported the key absent; a read fault of the backing store ends the process
\* (abort) and never comes back to the caller as false.
C2_FaultIsNeverNotFound ==
    /\ lookup.result = "false" => lookup.backing = "absent"
    /\ lookup.backing = "fault" => (lookup.result = "abort" /\ procState = "aborted")

C2_Witness ==
    /\ lookup.view = "witness"
    /\ lookup.backing = "fault"
    /\ lookup.result = "abort"
    /\ procState = "aborted"

\* C3: in one run of AppInitMain the recovery question is asked at most once and the
\* loading loop starts at most twice; when the attempt that follows an approved
\* reindex fails, AppInitMain returns InitError without asking or trying again.
C3_AtMostOneRestart ==
    /\ [](questions <= 1 /\ attempts <= 2)
    /\ [][(pcMain = "failed" /\ answer = "yes" /\ pcMain' # pcMain)
            => /\ pcMain' = "returned"
               /\ ret' = "error"
               /\ questions' = questions
               /\ attempts' = attempts]_vars

C3_Witness ==
    /\ pcMain = "returned"
    /\ ret = "error"
    /\ answer = "yes"
    /\ ~fLoaded
    /\ questions = 1
    /\ attempts = 2

\* the process found an empty data directory and no reindex was asked for
EmptyStart ==
    /\ disk0 = EmptyDisk
    /\ ~args.reindex
    /\ ~args.reindexChainState

\* "Done loading" was announced and AppInitMain returned true
Ready ==
    /\ pcMain = "returned"
    /\ ret = "true"
    /\ rpcWarmup = "finished"
    /\ fLoaded
    /\ fHaveGenesis

\* C4: from an empty data directory with no reindex requested, as long as no
\* collaborator reports a fault, loading succeeds on the first attempt and the
\* question is never asked; and with the main and the import thread scheduled
\* fairly, startup reaches Ready (genesis available, ready announced, true
\* returned) unless a fault is reported or a shutdown is requested.
C4_EmptyStartBecomesReady ==
    /\ []((EmptyStart /\ ~faulted) => (questions = 0 /\ attempts <= 1))
    /\ EmptyStart => <>(Ready \/ faulted \/ fRequestShutdown)

C4_Witness ==
    /\ EmptyStart
    /\ Ready
    /\ ~faulted
    /\ ~fRequestShutdown
    /\ questions = 0
    /\ attempts = 1
    /\ pcImport = "done"

\* the previous run persisted a chain with the other -txindex value, and this run
\* asks for no reindex of any kind
TxIndexToggled ==
    /\ disk0.index # "none"
    /\ disk0.coins # "none"
    /\ disk0.txindex # args.txindex
    /\ ~args.reindex
    /\ ~args.reindexChainState
    /\ ~(args.resync /\ disk0.version < UpgradeVersion)

\* C5: a load attempt that finds the persisted -txindex flag different from the
\* configured one fails with the index error; store loading never finishes with a
\* flag that differs from the configured one; and after a toggle with no reindex
\* requested, loading finishes (without storage faults) only once the error has been
\* put to the user and the rebuild approved.
C5_ToggleIsNeverSilent ==
    /\ [](fLoaded => fTxIndex = args.txindex)
    /\ []((TxIndexToggled /\ ~faulted /\ fLoaded) => (questions = 1 /\ answer = "yes"))
    /\ [][(pcMain = "txindex" /\ fTxIndex # args.txindex /\ pcMain' # pcMain)
            => (pcMain' = "failed" /\ strLoadError' = "txindex" /\ ~fLoaded')]_vars

C5_Witness ==
    /\ TxIndexToggled
    /\ pcMain = "failed"
    /\ strLoadError = "txindex"
    /\ questions = 0
    /\ ~fLoaded

\* the indices 0 .. k-1 of a set of files, k being the first index missing from it
ContiguousFromZero(S) == {i \in S : \A j \in 0..i : j \in S}

SetOf(seq) == {seq[i] : i \in 1..Len(seq)}

\* C9: CleanupBlockRevFiles leaves no undo file and exactly the block files 0 .. k-1,
\* k being the first index missing before it ran; and the reindex scan that follows
\* visits exactly the block files left, in order, when every one of them opens.
C9_CleanupLeavesWhatTheScanVisits ==
    /\ [][(pcMain = "reindexOrUpgrade" /\ fReindex /\ args.prune /\ pcMain' # pcMain)
            => (revFiles' = {} /\ blkFiles' = ContiguousFromZero(blkFiles))]_vars
    /\ []((args.prune /\ pcImport = "scanDone" /\ ~openFailed)
            => /\ revFiles = {}
               /\ blkFiles = ContiguousFromZero(files0.blk) \/ blkFiles = {}
               /\ SetOf(visited) = blkFiles
               /\ \A i \in 1..Len(visited) : visited[i] = i - 1)

C9_Witness ==
    /\ files0 = [blk |-> {0, 2}, rev |-> {0}]
    /\ args.prune
    /\ pcImport = "scanDone"
    /\ blkFiles = {0}
    /\ revFiles = {}
    /\ visited = <<0>>

ChainTeardown == <<"flush", "closeBlockFiles", "releaseMain", "releaseWitness",
                   "releaseBlockTree">>

Rank(ev) == CHOOSE k \in 1..Len(ChainTeardown) : ChainTeardown[k] = ev

\* the objects a step of the chain-state teardown acts on
ResourceOf(ev) ==
    CASE ev = "flush"            -> {"pcoinsTip"}
      [] ev = "releaseMain"      -> {"pcoinsTip", "pcoinscatcher", "pcoinsdbview"}
      [] ev = "releaseWitness"   -> WitObjs
      [] ev = "releaseBlockTree" -> {"pblocktree"}
      [] OTHER                   -> Objs

\* C10: within one call of CoreShutdown the steps of the chain-state teardown happen
\* in the order flush, close block files, release main view, release witness view,
\* release block-index store; and a flush or release happens only for objects that
\* were constructed at some point.
C10_TeardownOrderAndGuards ==
    /\ \A c \in 1..nCalls :
         LET done == SelectSeq(log, LAMBDA e : e.call = c /\ e.ev \in SetOf(ChainTeardown))
         IN  \A k \in 1..(Len(done) - 1) : Rank(done[k].ev) < Rank(done[k + 1].ev)
    /\ \A i \in 1..Len(log) :
         log[i].ev \in SetOf(ChainTeardown) \ {"closeBlockFiles"}
         => ResourceOf(log[i].ev) \cap everBuilt # {}

C10_Witness ==
    /\ everBuilt = {"pblocktree"}
    /\ \E i \in 1..Len(log) : log[i].ev = "releaseBlockTree"
    /\ \E i \in 1..Len(log) : log[i].ev = "closeBlockFiles"
    /\ \A i \in 1..Len(log) : log[i].ev \notin {"flush", "releaseMain", "releaseWitness"}
    /\ \E t \in ShutdownThreads : pcSh[t] = "erase"

(***************************************************************************)
(* C11                                                                     *)
(***************************************************************************)
\* C11: the network engine is stopped only after it has been interrupted, and no step
\* of the chain-state teardown is executed before all worker groups have been joined
\* and, in an execution that stops the network engine, before that stop.
C11_InterruptStopJoinTeardown ==
    /\ [][(g_connman' = "stopped" /\ g_connman # "stopped")
          => g_connman = "interrupted"]_vars
    /\ [](\A i \in 1..Len(log) :
            log[i].ev \in SetOf(ChainTeardown)
            => /\ \E j \in 1..(i - 1) : log[j].ev = "joinAll"
               /\ \A k \in 1..Len(log) : log[k].ev = "netStop" => k < i)

C11_Witness ==
    \E i, j, k \in 1..Len(log) :
        /\ i < j /\ j < k
        /\ log[i].ev = "netStop"
        /\ log[j].ev = "joinAll"
        /\ log[k].ev = "releaseMain"

(***************************************************************************)
(* C12                                                                     *)
(***************************************************************************)
\* the steps of a shutdown, in the order of the specification
ShutdownSteps == <<{"joinAll"}, {"walletFlushSoft"}, {"netDelete"},
                   {"dumpMempool", "dumpFeeEstimates"}, SetOf(ChainTeardown),
                   {"walletFlushFinal"}, {"unregisterSubscribers"}, {"eccStop"},
                   {"erasePartial", "eraseFull"}>>

StepOf(ev) == CHOOSE k \in 1..Len(ShutdownSteps) : ev \in ShutdownSteps[k]

InSteps(ev) == \E k \in 1..Len(ShutdownSteps) : ev \in ShutdownSteps[k]

\* what one call of CoreShutdown has executed of these steps, in order
StepsOfCall(c) == SelectSeq(log, LAMBDA e : e.call = c /\ InSteps(e.ev))

\* C12: within one call of CoreShutdown the steps are executed in the order join all
\* worker groups, soft wallet flush, network engine teardown, mempool and fee-estimate
\* snapshots, chain-state teardown, final wallet flush, release of the subscribers,
\* stop of the cryptographic subsystem, erase directive: nothing of an earlier step
\* is executed after something of a later step.
C12_ShutdownStepOrder ==
    \A c \in 1..nCalls :
        LET done == StepsOfCall(c)
        IN  \A k \in 1..(Len(done) - 1) : StepOf(done[k].ev) <= StepOf(done[k + 1].ev)

C12_Witness ==
    /\ \A k \in 1..Len(ShutdownSteps) : \E i \in 1..Len(log) : log[i].ev \in ShutdownSteps[k]
    /\ \A i, j \in 1..Len(log) : log[i].call = log[j].call

(***************************************************************************)
(* C13, C14                                                                *)
(***************************************************************************)
Exists(v) == ptr[TipOf(v)] = "live"

\* from loadblockindex to the construction of ppow2witTip the views are being replaced
ReplacingViews == procState = "running" /\ pcMain \in {"newMain", "delWit", "newWit"}

\* C13: in every state of startup and of shutdown the witness view exists whenever
\* the main view exists.
C13_WitnessWheneverMain == procState = "running" => (Exists("main") => Exists("witness"))

\* C14: while AppInitMain replaces the main and the witness view it holds cs_main.
C14_ReplacedUnderCsMain == ReplacingViews => cs_main = "main"

(***************************************************************************)
(* C15                                                                     *)
(***************************************************************************)
SourceOrder == <<"scan", "bootstrap", "loadblock">>

SrcRank(src) == CHOOSE k \in 1..Len(SourceOrder) : SourceOrder[k] = src

Tried(src) == {i \in 1..Len(imported) : imported[i].src = src}

ImportDrained == pcImport \in {"activate", "finish", "done"}

\* C15: the import worker tries its sources in the order scan files, bootstrap.dat,
\* files of -loadblock, none of them twice: the scan files in ascending index from 0,
\* stopping at the first index that is missing or does not open, and the files of
\* -loadblock in the order given; when it comes to activate the best chain it has
\* tried bootstrap.dat if that existed and every file of -loadblock, and from then on
\* it imports nothing.
C15_SourcesInSequence ==
    /\ [](\A i, j \in 1..Len(imported) :
            i < j => \/ SrcRank(imported[i].src) < SrcRank(imported[j].src)
                     \/ /\ imported[i].src = imported[j].src
                        /\ imported[i].id < imported[j].id)
    /\ [](\A i \in Tried("scan") :
            /\ imported[i].id = i - 1
            /\ imported[i].id \in blkFiles
            /\ ~imported[i].ok => i = Cardinality(Tried("scan")))
    /\ [](ImportDrained =>
            /\ (\A i \in Tried("scan") : imported[i].ok) /\ Tried("scan") # {}
               => Cardinality(Tried("scan")) \notin blkFiles
            /\ bootstrapDat => \E i \in Tried("bootstrap") : ~imported[i].ok
            /\ {imported[i].id : i \in Tried("loadblock")} = 1..Len(vImportFiles))
    /\ [][ImportDrained => imported' = imported]_vars

C15_Witness ==
    /\ pcImport = "finish"
    /\ imported = <<Source("scan", 0, TRUE), Source("bootstrap", 0, TRUE),
                    Source("loadblock", 1, TRUE), Source("loadblock", 2, TRUE)>>
    /\ ~bootstrapDat

(***************************************************************************)
(* C16                                                                     *)
(***************************************************************************)
\* C16: when ActivateBestChain fails in the import worker, the worker has asked the
\* application to shut down, the process has not been ended and the worker goes on
\* to its last step.
C16_ActivationFailureRequestsShutdown ==
    [][(pcImport = "activate" /\ pcImport' # pcImport /\ ~lookup'.activated)
       => (fRequestShutdown' /\ procState' = "running" /\ pcImport' = "finish")]_vars

C16_Witness ==
    /\ pcImport = "finish"
    /\ ~lookup.activated
    /\ fRequestShutdown
    /\ ~args.stopAfterImport

(***************************************************************************)
(* C17                                                                     *)
(***************************************************************************)
\* the user was asked whether to rebuild the block database and did not say yes
Declined == questions > 0 /\ answer \in {"no", "none"}

\* C17: when the user declines the question asked after a failed load attempt, or
\* gives no answer, AppInitMain has returned false (not InitError), fReindex has
\* not been set, and no further load attempt is made.
C17_DeclineReturnsFalse ==
    /\ [](Declined => (pcMain = "returned" /\ ret = "false"))
    /\ [][(pcMain = "failed" /\ questions' # questions /\ answer' \in {"no", "none"})
          => (fReindex' = fReindex /\ procState' = "running")]_vars
    /\ [][Declined => /\ fReindex' = fReindex
                       /\ attempts' = attempts
                       /\ creations' = creations]_vars

C17_Witness ==
    /\ questions = 1
    /\ answer = "none"
    /\ strLoadError = ""
    /\ ret = "false"
    /\ \E t \in ShutdownThreads : pcSh[t] = "erase"

(***************************************************************************)
(* C18                                                                     *)
(***************************************************************************)
\* what makes AppInitMain wipe a store: -reindex, -reindex-chainstate, the schema
\* upgrade with -resyncforblockindexupgrade, or a yes to the question
WipeRequested ==
    \/ args.reindex
    \/ args.reindexChainState
    \/ args.resync /\ disk0.version < UpgradeVersion
    \/ answer = "yes"

\* C18: while the loaded tip is time-stamped more than two hours ahead the load has
\* not succeeded, the check of the tip ends the attempt with the error, and a store
\* whose best block is from the future is wiped only when the user asked for it on
\* the command line or approved the rebuild.
C18_FutureTipBlocksLoading ==
    /\ [](TipSkew(chainTip) > MaxFutureSkew => ~fLoaded)
    /\ [][(pcMain = "future" /\ TipSkew(chainTip) > MaxFutureSkew /\ pcMain' # pcMain)
          => (pcMain' = "failed" /\ strLoadError' = "future" /\ disk' = disk)]_vars
    /\ [][(disk.coins = "future" /\ disk' # disk) => WipeRequested']_vars

C18_Witness ==
    /\ chainTip = "future"
    /\ strLoadError = "future"
    /\ pcMain = "failed"
    /\ ~fReset
    /\ disk = disk0

(***************************************************************************)
(* C19                                                                     *)
(***************************************************************************)
ChainAndSnapshotData == {"blocks", "chainstate", "witstate", "mempool.dat",
                         "fee_estimates.dat"}

\* a call of CoreShutdown executes its last step
EraseStep == \E t \in ShutdownThreads : pcSh[t] = "erase" /\ pcSh'[t] # "erase"

\* C19: the last step of CoreShutdown removes nothing when neither erase flag is set;
\* with only the partial flag it removes the checkpoint cache, the ban list and the
\* peer list and nothing else; with the full flag it removes those and the block
\* files, the chain state, the witness state and the mempool and fee-estimate files.
\* A removal that fails leaves its entry; without such a fault every entry named is
\* removed.  Nothing else removes an entry.
C19_EraseDirective ==
    /\ [][EraseStep =>
            LET partial == partiallyEraseDatadirOnShutdown
                full    == fullyEraseDatadirOnShutdown
            IN  /\ (~partial /\ ~full) => erased' = erased
                /\ (partial /\ ~full) =>
                      /\ erased' \subseteq PartialEraseTargets
                      /\ erased' \cap ChainAndSnapshotData = {}
                      /\ ~faulted' => erased' = PartialEraseTargets
                /\ (full /\ ~faulted') =>
                      (PartialEraseTargets \cup ChainAndSnapshotData) \subseteq erased']_vars
    /\ [][~EraseStep => erased' = erased]_vars

C19_Witness ==
    /\ partiallyEraseDatadirOnShutdown /\ ~fullyEraseDatadirOnShutdown
    /\ erased = PartialEraseTargets
    /\ \A t \in ShutdownThreads : pcSh[t] = "idle"

(***************************************************************************)
(* C20                                                                     *)
(***************************************************************************)
\* C20: with -listen the bind step lets AppInitMain proceed only when a listener was
\* bound, and ends it with InitError when none was; without -listen BindListenPort
\* is never called and the step always proceeds.
C20_BindOrFail ==
    /\ net.fListen =>
         /\ net.ret = "proceed" => net.bound >= 1
         /\ (net.pc = "done" /\ net.bound = 0) => (net.ret = "error" /\ net.errors >= 1)
    /\ ~net.fListen =>
         /\ net.tried = 0
         /\ net.ret # "error"
         /\ net.pc = "done" => net.ret = "proceed"

C20_Witness ==
    /\ net.pc = "done"
    /\ net.fListen
    /\ Len(net.binds) = 2
    /\ net.tried = 2
    /\ net.bound = 0
    /\ net.ret = "error"

(***************************************************************************)
(* C21                                                                     *)
(***************************************************************************)
\* AppInitParameterInteraction has passed the check of the file descriptors
CeilingResolved ==
    /\ par.pc \in {"step3", "done"}
    /\ ~(par.prune /\ par.txindex)
    /\ par.nFD >= MIN_CORE_FILEDESCRIPTORS

\* OS file-descriptor ceiling - reserved descriptors - explicit bind count - add-node
\* reserve
SystemCeiling ==
    SystemMaxConnections(par.rlimit) - MIN_CORE_FILEDESCRIPTORS - par.nBindArgs
      - MAX_ADDNODE_CONNECTIONS

\* the check of the file descriptors found fewer than the reserved floor
BelowFloor ==
    /\ par.pc \in {"step3", "done"}
    /\ ~(par.prune /\ par.txindex)
    /\ par.nFD < MIN_CORE_FILEDESCRIPTORS

\* C21, as stated: the connection ceiling that AppInitParameterInteraction resolves is
\* at most the ceiling the user asked for and at most the ceiling of the system (file
\* descriptors of the system less the reserved ones, the explicit binds and the
\* add-node reserve); with fewer descriptors than the reserved floor it fails.
C21_CeilingWithinRequestAndSystem ==
    /\ CeilingResolved =>
         /\ par.nMaxConnections <= par.nUserMaxConnections
         /\ par.nMaxConnections <= SystemCeiling
    /\ BelowFloor => (par.pc = "done" /\ par.result = "error")

\* C21, amended: the connection ceiling that AppInitParameterInteraction resolves is
\* at most the larger of 0 and the ceiling the user asked for, and at most the larger
\* of 0 and the ceiling of the system; with fewer descriptors than the reserved floor
\* it fails.
C21_CeilingWithinClampedRequestAndSystem ==
    /\ CeilingResolved =>
         /\ par.nMaxConnections <= Max(par.nUserMaxConnections, 0)
         /\ par.nMaxConnections <= Max(SystemCeiling, 0)
    /\ BelowFloor => (par.pc = "done" /\ par.result = "error")

C21_Witness ==
    /\ par.pc = "done"
    /\ par.result = "true"
    /\ par.nUserMaxConnections = 300
    /\ par.rlimit = [err |-> FALSE, cur |-> 160]
    /\ par.nBindArgs = 2
    /\ par.nFD = 2048
    /\ par.nMaxConnections = 0

(***************************************************************************)
(* C22                                                                     *)
(***************************************************************************)
\* the steps of a startup, as steps of the model
RpcStarts      == rpcWarmup = "off" /\ rpcWarmup' = "warmup"
ListenersBind  == g_connman = "null" /\ g_connman' = "created"
LoadCompletes  == ~fLoaded /\ fLoaded'
WalletLoads    == ~vpwallets /\ vpwallets'
ImportLaunches == pcImport = "idle" /\ pcImport' # "idle"
GenesisWaitEnds == pcMain = "waitGenesis" /\ pcMain' = "step11"
EngineStarts   == g_connman # "started" /\ g_connman' = "started"
ReadyAnnounced == rpcWarmup # "finished" /\ rpcWarmup' = "finished"

\* C22, as stated: store loading completes, then the wallet is loaded, then the
\* listeners are bound, the RPC/HTTP server and the network engine are started, then
\* the import worker is launched, then AppInitMain waits for genesis, then ready is
\* announced.
C22_ServicesBetweenWalletAndImport ==
    /\ [][WalletLoads => fLoaded]_vars
    /\ [][(RpcStarts \/ ListenersBind \/ EngineStarts) => (vpwallets /\ pcImport = "idle")]_vars
    /\ [][ImportLaunches => (rpcWarmup = "warmup" /\ g_connman = "started")]_vars
    /\ [][GenesisWaitEnds => pcImport # "idle"]_vars
    /\ [][ReadyAnnounced => (pcMain = "step12" /\ fHaveGenesis)]_vars

\* C22, amended: the RPC/HTTP server is started (in warm-up mode) and then the
\* listeners are bound before store loading begins; store loading completes, then the
\* wallet is loaded, then the import worker is launched, then AppInitMain waits for
\* genesis, then the network engine is started, then ready is announced.
C22_StartupOrder ==
    /\ [][ListenersBind => (rpcWarmup = "warmup" /\ attempts = 0)]_vars
    /\ [][RpcStarts => (g_connman = "null" /\ attempts = 0)]_vars
    /\ [][LoadCompletes => (rpcWarmup = "warmup" /\ g_connman = "created")]_vars
    /\ [][WalletLoads => (fLoaded /\ pcImport = "idle")]_vars
    /\ [][ImportLaunches => (vpwallets /\ g_connman = "created")]_vars
    /\ [][GenesisWaitEnds => (pcImport # "idle" /\ fHaveGenesis /\ g_connman = "created")]_vars
    /\ [][EngineStarts => (pcMain = "step11" /\ fHaveGenesis /\ pcImport # "idle"
                           /\ rpcWarmup = "warmup")]_vars
    /\ [][ReadyAnnounced => (pcMain = "step12" /\ g_connman = "started")]_vars

C22_Witness ==
    /\ pcMain = "returned"
    /\ ret = "true"
    /\ rpcWarmup = "finished"
    /\ g_connman = "started"
    /\ vpwallets
    /\ fLoaded
    /\ disk0.index = "ok"
    /\ pcImport = "loadblock"

(***************************************************************************)
(* C23                                                                     *)
(***************************************************************************)
\* chainActive.Tip() != NULL
GenesisAvailable == chainTip # "none"

\* C23: AppInitMain starts the network engine and announces ready only when genesis
\* is available; fHaveGenesis is set only by AppInitMain when a chain tip exists at
\* the launch of the import worker, or by the handler when the import worker signals
\* a block tip that is not null, and it implies that the chain has a tip.
C23_NothingBeforeGenesis ==
    /\ [](fHaveGenesis => GenesisAvailable)
    /\ []((g_connman = "started" \/ rpcWarmup = "finished") => fHaveGenesis)
    /\ [][(EngineStarts \/ ReadyAnnounced) => (fHaveGenesis /\ GenesisAvailable)]_vars
    /\ [][(~fHaveGenesis /\ fHaveGenesis')
          => \/ pcMain = "step10" /\ GenesisAvailable /\ ImportLaunches
             \/ /\ pcImport = "activate"
                /\ pcMain = "waitGenesis"
                /\ lookup'.activated
                /\ GenesisAvailable']_vars

C23_Witness ==
    /\ pcMain = "step12"
    /\ g_connman = "started"
    /\ args.reindex
    /\ disk0.index = "ok"
    /\ fHaveGenesis
    /\ chainTip = "ok"
    /\ pcImport = "finish"

(***************************************************************************)
(* C24                                                                     *)
(***************************************************************************)
\* pcoinsdbview->nPreviousVersion < 1, not yet dealt with
UpgradePending == upgradeOnceOnly /\ nPreviousVersion < UpgradeVersion

\* the effect of wipe and reindex
WipedForReindex ==
    /\ pcMain' = "loadblockindex"
    /\ fReindex'
    /\ mapBlockIndex' = "empty"
    /\ blkFiles' = {}
    /\ revFiles' = {}

\* the checks of the load attempt that follow the upgrade
RemainingChecks == {"genesis", "initIndex", "txindex", "prune", "rewind", "future", "verify"}

\* C24: when the loader finds the stored schema version below the current one, then
\* with -resyncforblockindexupgrade it calls no UpgradeBlockIndex and goes straight to
\* wipe and reindex; otherwise it calls UpgradeBlockIndex once, never a second time; a
\* failure of that call leads to wipe and reindex, a success to a flush and a reload of
\* the index with fReindex left off; the remaining checks run only after that.
C24_UpgradeSubProtocol ==
    /\ [][(pcMain = "upgradeResync" /\ UpgradePending /\ args.resync /\ pcMain' # pcMain)
          => (WipedForReindex /\ upgradeCalls' = upgradeCalls)]_vars
    /\ [](args.resync => upgradeCalls = 0)
    /\ [](upgradeCalls <= 1)
    /\ [][upgradeCalls' # upgradeCalls
          => /\ pcMain = "upgradeIndex" /\ UpgradePending /\ ~args.resync /\ ~fReindex
             /\ ~upgradeOnceOnly'
             /\ IF faulted'
                THEN WipedForReindex
                ELSE /\ pcMain' = "loadblockindex"
                     /\ ~fReindex'
                     /\ mapBlockIndex' = "empty"
                     /\ disk'.version = UpgradeVersion
                     /\ blkFiles' = blkFiles]_vars
    /\ [][(pcMain = "upgradeIndex" /\ UpgradePending /\ pcMain' # pcMain)
          => upgradeCalls' = upgradeCalls + 1]_vars
    /\ [](pcMain \in RemainingChecks => ~UpgradePending)
    /\ []((pcMain \in RemainingChecks /\ disk0.version < UpgradeVersion /\ ~WipeRequested)
          => upgradeCalls = 1)

C24_Witness ==
    /\ pcMain = "genesis"
    /\ disk0.version < UpgradeVersion
    /\ upgradeCalls = 1
    /\ ~fReindex
    /\ ~faulted
    /\ creations = 2
    /\ attempts = 1
    /\ disk.version = UpgradeVersion

(***************************************************************************)
(* C25                                                                     *)
(***************************************************************************)
\* the entries of imported that handed bootstrap.dat to the validator
BootstrapFed == {i \in 1..Len(imported) : imported[i].src = "bootstrap" /\ imported[i].ok}

MaxSlots == 4

ReturnFalse == FALSE
ReturnTrue == TRUE

\* the functions the test connects
SlotFunctions == {"ReturnFalse", "ReturnTrue"}

\* the call of a slot
Call(f) == IF f = "ReturnTrue" THEN ReturnTrue ELSE ReturnFalse

RECURSIVE CombineFrom(_, _, _)
\* the combiner's loop over the results of the slots, first to last
CombineFrom(results, i, all) ==
    IF i > Len(results) THEN all
    ELSE CombineFrom(results, i + 1, IF results[i] THEN all ELSE FALSE)

\* a combiner that returns the result of the last slot, as the default
\* combiner of a signal does
BooleanAndAllReturnValues_LastValue(results) ==
    IF results = <<>> THEN TRUE ELSE results[Len(results)]

\* the combiner: every slot is called, and the result is false when one was
BooleanAndAllReturnValues(results) == CombineFrom(results, 1, TRUE)

\* Test.connect(&f): the slot is added after the connected ones
Signal_connect(f) ==
    /\ signal.pc = "on"
    /\ Len(signal.slots) < MaxSlots
    /\ signal' = [signal EXCEPT !.slots = Append(@, f), !.ever = @ \cup {f}]
    /\ UNCHANGED <<lifeVars, par, cache, net, subsidy, scan, rules>>

\* Test.disconnect(&f): every slot that calls f is removed
Signal_disconnect(f) ==
    /\ signal.pc = "on"
    /\ signal' = [signal EXCEPT !.slots = SelectSeq(@, LAMBDA g : g # f)]
    /\ UNCHANGED <<lifeVars, par, cache, net, subsidy, scan, rules>>

\* Test(): the connected slots are called in the order of their connection
\* and the combiner folds their results
Signal_invoke ==
    /\ signal.pc = "on"
    /\ signal' = [signal EXCEPT
                    !.invoked = TRUE,
                    !.at = signal.slots,
                    !.result = BooleanAndAllReturnValues(
                                  [i \in 1..Len(signal.slots) |-> Call(signal.slots[i])])]
    /\ UNCHANGED <<lifeVars, par, cache, net, subsidy, scan, rules>>

test_combiner_all ==
    \/ \E f \in SlotFunctions : Signal_connect(f)
    \/ \E f \in SlotFunctions : Signal_disconnect(f)
    \/ Signal_invoke

\* the signal as constructed: no slot, never invoked
InitSignal ==
    /\ LifeIdle
    /\ par = [pc |-> "off"]
    /\ cache = [pc |-> "off"]
    /\ net = [pc |-> "off"]
    /\ subsidy = [pc |-> "off"]
    /\ RulesIdle
    /\ signal = [pc |-> "on", slots |-> <<>>, ever |-> {}, invoked |-> FALSE,
                 at |-> <<>>, result |-> FALSE]

SpecSignal == InitSignal /\ [][test_combiner_all]_vars

\* C26: whatever was connected and disconnected before, an invocation of the signal
\* returns true exactly when every slot connected at the invocation returns true; with
\* no slot connected it returns true.
C26_TrueIffAllSlotsTrue ==
    (signal.pc = "on" /\ signal.invoked)
        => /\ signal.result <=> (\A i \in 1..Len(signal.at) : Call(signal.at[i]))
           /\ signal.at = <<>> => signal.result

\* both functions were connected and disconnected again, and the signal returned true
C26_Witness ==
    /\ signal.pc = "on"
    /\ signal.invoked
    /\ signal.ever = SlotFunctions
    /\ signal.at = <<>>
    /\ signal.slots = <<>>
    /\ signal.result

(***************************************************************************)
(* test/main_tests.cpp, block_subsidy_test and subsidy_limit_test.         *)
(* A CAmount is a 64 bit count of base units; it is kept here as whole     *)
(* coins and the base units beyond them, amount = coins * COIN + units     *)
(* with 0 <= units < COIN, because the total exceeds the integers of the   *)
(* checker.  No amount of the test comes near 2^63.                        *)
(***************************************************************************)
\* around every height where the subsidy changes, and before the last height,
\* the loop is followed height by height over this many heights
MaxNear == 16

\* base units of one coin
COIN == 100000000

CAmount(coins, units) == [coins |-> coins, units |-> units]

\* a + b of two amounts that are not negative
AddAmount(a, b) ==
    CAmount(a.coins + b.coins + ((a.units + b.units) \div COIN), (a.units + b.units) % COIN)

\* n * a, for an amount of whole coins
TimesAmount(n, a) == CAmount(n * a.coins, 0)

\* the largest valid amount, in whole coins
MAX_MONEY == 1680000000

\* 0 <= nValue <= MAX_MONEY
MoneyRange(nValue) ==
    /\ nValue.coins >= 0
    /\ nValue.units >= 0
    /\ \/ nValue.coins < MAX_MONEY
       \/ nValue.coins = MAX_MONEY /\ nValue.units = 0

\* the last height of each stage of the schedule
PremineHeight == 1
LastHeight1000 == 250000
LastHeight100 == 1030000
LastHeight120 == 10880000

\* a schedule whose last stage ends one block early
GetBlockSubsidy_EndsEarly(nHeight) ==
    IF nHeight = PremineHeight THEN CAmount(170000000, 0)
    ELSE IF nHeight <= LastHeight1000 THEN CAmount(1000, 0)
    ELSE IF nHeight <= LastHeight100 THEN CAmount(100, 0)
    ELSE IF nHeight < LastHeight120 THEN CAmount(120, 0)
    ELSE CAmount(0, 0)

\* the subsidy of the block at nHeight
GetBlockSubsidy(nHeight) ==
    IF nHeight = PremineHeight THEN CAmount(170000000, 0)
    ELSE IF nHeight <= LastHeight1000 THEN CAmount(1000, 0)
    ELSE IF nHeight <= LastHeight100 THEN CAmount(100, 0)
    ELSE IF nHeight <= LastHeight120 THEN CAmount(120, 0)
    ELSE CAmount(0, 0)

\* the loop runs over the heights below this one
LoopEnd == 10890000

\* 168000000000000000LL = 1680000000 * COIN + 0
ExpectedSum == CAmount(1680000000, 0)

\* the first heights of the stages, and the end of the loop
StageStarts ==
    {PremineHeight, PremineHeight + 1, LastHeight1000 + 1, LastHeight100 + 1,
     LastHeight120 + 1, LoopEnd}

NearStage(nHeight) ==
    \E b \in StageStarts : nHeight - b <= MaxNear /\ b - nHeight <= MaxNear

\* the first height after nHeight that is near a stage start
NextNear(nHeight) ==
    CHOOSE h \in {b - MaxNear : b \in StageStarts} :
        /\ h > nHeight
        /\ \A g \in {b - MaxNear : b \in StageStarts} : g > nHeight => h <= g

\* one iteration of the loop
subsidy_limit_test_Iterate ==
    /\ subsidy.pc = "loop"
    /\ subsidy.nHeight < LoopEnd
    /\ NearStage(subsidy.nHeight)
    /\ LET nSubsidy == GetBlockSubsidy(subsidy.nHeight)
           nSum == AddAmount(subsidy.nSum, nSubsidy)
       IN subsidy' = [subsidy EXCEPT
                        !.last = subsidy.nHeight,
                        !.nSubsidy = nSubsidy,
                        !.nSum = nSum,
                        !.inRange = @ /\ MoneyRange(nSum),
                        !.nHeight = @ + 1]
    /\ UNCHANGED <<lifeVars, par, cache, net, signal, scan, rules>>

\* the iterations over a stretch of heights inside one stage: every height adds the
\* same subsidy, which is not negative, so the sums of the stretch lie between the
\* sum before it and the sum after it
subsidy_limit_test_Stretch ==
    /\ subsidy.pc = "loop"
    /\ subsidy.nHeight < LoopEnd
    /\ ~NearStage(subsidy.nHeight)
    /\ LET to == NextNear(subsidy.nHeight)
           nSubsidy == GetBlockSubsidy(subsidy.nHeight)
           nSum == AddAmount(subsidy.nSum, TimesAmount(to - subsidy.nHeight, nSubsidy))
       IN /\ GetBlockSubsidy(to - 1) = nSubsidy
          /\ nSubsidy.units = 0 /\ nSubsidy.coins >= 0
          /\ subsidy' = [subsidy EXCEPT
                           !.last = to - 1,
                           !.nSubsidy = nSubsidy,
                           !.nSum = nSum,
                           !.inRange = @ /\ MoneyRange(nSum),
                           !.nHeight = to]
    /\ UNCHANGED <<lifeVars, par, cache, net, signal, scan, rules>>

\* BOOST_CHECK_EQUAL(nSum, 168000000000000000LL)
subsidy_limit_test_Check ==
    /\ subsidy.pc = "loop"
    /\ subsidy.nHeight = LoopEnd
    /\ subsidy' = [subsidy EXCEPT !.pc = "done", !.equal = (subsidy.nSum = ExpectedSum)]
    /\ UNCHANGED <<lifeVars, par, cache, net, signal, scan, rules>>

subsidy_limit_test ==
    \/ subsidy_limit_test_Iterate
    \/ subsidy_limit_test_Stretch
    \/ subsidy_limit_test_Check

\* CAmount nSum = 0; nHeight = 0
InitSubsidy ==
    /\ LifeIdle
    /\ par = [pc |-> "off"]
    /\ cache = [pc |-> "off"]
    /\ net = [pc |-> "off"]
    /\ signal = [pc |-> "off"]
    /\ RulesIdle
    /\ subsidy = [pc |-> "loop", nHeight |-> 0, nSum |-> CAmount(0, 0), last |-> -1,
                  nSubsidy |-> CAmount(0, 0), inRange |-> TRUE, equal |-> FALSE]

SpecSubsidy == InitSubsidy /\ [][subsidy_limit_test]_vars

\* C27: the subsidy is 170,000,000 coins at height 1, 1,000 coins at height 250000, 100
\* at 250001, 120 from 1030001 through 10880000 and nothing from 10880001 on; the running
\* total over the heights 0..10889999 is a valid amount of money at every height, and at
\* the end it is 168000000000000000 base units.
C27_SubsidySchedule ==
    subsidy.pc # "off"
        => /\ subsidy.last = 1 => subsidy.nSubsidy = CAmount(170000000, 0)
           /\ subsidy.last = 250000 => subsidy.nSubsidy = CAmount(1000, 0)
           /\ subsidy.last = 250001 => subsidy.nSubsidy = CAmount(100, 0)
           /\ (subsidy.last >= 1030001 /\ subsidy.last <= 10880000)
                 => subsidy.nSubsidy = CAmount(120, 0)
           /\ subsidy.last >= 10880001 => subsidy.nSubsidy = CAmount(0, 0)
           /\ subsidy.inRange /\ MoneyRange(subsidy.nSum)
           /\ subsidy.nHeight = LoopEnd => subsidy.nSum = ExpectedSum
           /\ subsidy.pc = "done" => subsidy.equal

\* the loop has run over every height and the total was compared
C27_Witness ==
    /\ subsidy.pc = "done"
    /\ subsidy.nHeight = 10890000
    /\ subsidy.last = 10889999
    /\ subsidy.nSum = CAmount(1680000000, 0)
    /\ subsidy.equal

\* C28: on a host with low memory, when the user gave no -maxconnections, the ceiling
\* that AppInitParameterInteraction resolves, which AppInitMain copies into the options
\* of the network engine, is at most 40.
C28_LowMemoryCeilingAtMost40 ==
    (/\ par.pc = "done"
     /\ par.result = "true"
     /\ LowMemory
     /\ ~IsArgSet(par.user, "maxconnections"))
        => par.nMaxConnections <= LowMemoryValue("maxconnections")

\* C29: over the load attempts of AppInitMain and the CoreShutdown after them, no
\* chain-state object is released twice for one construction, and no released object
\* is flushed: every statement that deletes or flushes an object finds it live or null.
C29_ReleasedOncePerConstruction ==
    [][/\ LoadLoop_DeleteMain => ~AnyDangling(ptr, MainObjs)
       /\ LoadLoop_DeleteWit => ~AnyDangling(ptr, WitObjs)
       /\ \A t \in ShutdownThreads :
            /\ CoreShutdown_Flush(t) => ptr["pcoinsTip"] # "dangling"
            /\ CoreShutdown_ReleaseMain(t) => ~AnyDangling(ptr, MainObjs \ {"pblocktree"})
            /\ CoreShutdown_ReleaseWitness(t) => ~AnyDangling(ptr, WitObjs)
            /\ CoreShutdown_ReleaseBlockTree(t) => ptr["pblocktree"] # "dangling"]_vars

\* C30: when a load attempt fails while reindex is in effect, whether it was in effect
\* when the attempt started or the loader enabled it during the attempt (forced resync,
\* or the fallback of a failed upgrade), no recovery question is asked and the failure
\* is fatal.
C30_NoQuestionInsideReset ==
    [][(LoadLoop_Failed /\ fReindex)
          => /\ questions' = questions
             /\ pcMain' = "returned"
             /\ ret' = "error"]_vars

\* C31: on a host that reports exactly 1 GiB of physical memory, or more,
\* AppInitParameterInteraction lowers none of the five settings and gives none of
\* their warnings: the overrides need a memory strictly below 1 GiB.
C31_NoOverrideFromOneGiB ==
    (par.pc \in {"fd", "step3", "done"} /\ ~(par.prune /\ par.txindex) /\ par.mem >= GiB)
        => /\ par.mapArgs = par.user
           /\ par.warnings \cap Settings = {}

\* the import worker calls LoadMempool
ReloadsMempool == ThreadImport_Finish /\ args.persistMempool

\* C32: the import worker reloads the persisted mempool snapshot only at the end of a
\* successful run: in a run whose best-chain activation failed it does not reload it.
C32_ReloadOnlyAfterSuccess ==
    [][ReloadsMempool => lookup.activated]_vars

(***************************************************************************)
(* The reindex scan of ThreadImport, statement by statement, next to       *)
(* another worker that takes cs_main.  scan.holder is the holder of        *)
(* cs_main; scan.seen collects the positions of the import worker at which *)
(* the other worker acquired it.                                           *)
(***************************************************************************)
ScanAt(p) == scan.pc = p

\* LOCK(cs_main): the block around the look-up of the file is entered
Scan_Lock ==
    /\ ScanAt("lock")
    /\ scan.holder = "none"
    /\ scan' = [scan EXCEPT !.pc = "exists", !.holder = "import"]
    /\ UNCHANGED <<lifeVars, par, cache, net, signal, subsidy, rules>>

\* if (!blockStore.BlockFileExists(pos)) break;  leaving the block unlocks
Scan_BlockFileExists ==
    /\ ScanAt("exists")
    /\ IF scan.nFile \in scan.files
       THEN scan' = [scan EXCEPT !.pc = "getFile"]
       ELSE scan' = [scan EXCEPT !.pc = "finished", !.holder = "none"]
    /\ UNCHANGED <<lifeVars, par, cache, net, signal, subsidy, rules>>

\* a worker whose lock lasts to the end of the iteration
Scan_GetBlockFile_KeepsLock ==
    /\ ScanAt("getFile")
    /\ \E opened \in BOOLEAN :
         IF opened
         THEN scan' = [scan EXCEPT !.pc = "validate"]
         ELSE scan' = [scan EXCEPT !.pc = "finished", !.holder = "none"]
    /\ UNCHANGED <<lifeVars, par, cache, net, signal, subsidy, rules>>

\* tmpfile = blockStore.GetBlockFile(pos, true); if (!tmpfile) break;
\* file = fdopen(dup(fileno(tmpfile)), "rb+");  the end of the block unlocks
Scan_GetBlockFile ==
    /\ ScanAt("getFile")
    /\ \E opened \in BOOLEAN :
         IF opened
         THEN scan' = [scan EXCEPT !.pc = "validate", !.holder = "none"]
         ELSE scan' = [scan EXCEPT !.pc = "finished", !.holder = "none"]
    /\ UNCHANGED <<lifeVars, par, cache, net, signal, subsidy, rules>>

\* LoadExternalBlockFile(chainparams, file, &pos) is entered
Scan_LoadExternalBlockFile ==
    /\ ScanAt("validate")
    /\ scan' = [scan EXCEPT !.pc = "validating"]
    /\ UNCHANGED <<lifeVars, par, cache, net, signal, subsidy, rules>>

\* LoadExternalBlockFile returns; fclose(file); nFile++
Scan_Close ==
    /\ ScanAt("validating")
    /\ scan' = [scan EXCEPT !.pc = "lock", !.nFile = @ + 1]
    /\ UNCHANGED <<lifeVars, par, cache, net, signal, subsidy, rules>>

\* pblocktree->WriteReindexing(false); fReindex = false;
Scan_Finished ==
    /\ ScanAt("finished")
    /\ scan' = [scan EXCEPT !.pc = "done"]
    /\ UNCHANGED <<lifeVars, par, cache, net, signal, subsidy, rules>>

\* another worker asks for cs_main, gets it when nobody holds it, and gives it back
Other_Request ==
    /\ scan.pc # "off"
    /\ scan.other = "idle"
    /\ scan' = [scan EXCEPT !.other = "waiting"]
    /\ UNCHANGED <<lifeVars, par, cache, net, signal, subsidy, rules>>

Other_Acquire ==
    /\ scan.pc # "off"
    /\ scan.other = "waiting"
    /\ scan.holder = "none"
    /\ scan' = [scan EXCEPT !.other = "inside", !.holder = "other",
                            !.seen = @ \cup {scan.pc}]
    /\ UNCHANGED <<lifeVars, par, cache, net, signal, subsidy, rules>>

Other_Release ==
    /\ scan.pc # "off"
    /\ scan.other = "inside"
    /\ scan' = [scan EXCEPT !.other = "idle", !.holder = "none"]
    /\ UNCHANGED <<lifeVars, par, cache, net, signal, subsidy, rules>>

ThreadImport_Scan ==
    \/ Scan_Lock
    \/ Scan_BlockFileExists
    \/ Scan_GetBlockFile
    \/ Scan_LoadExternalBlockFile
    \/ Scan_Close
    \/ Scan_Finished
    \/ Other_Request
    \/ Other_Acquire
    \/ Other_Release

\* if (fReindex) { int nFile = 0; while (true) { ...   on any set of block files
InitScan ==
    /\ LifeIdle
    /\ TestsIdle
    /\ par = [pc |-> "off"]
    /\ cache = [pc |-> "off"]
    /\ net = [pc |-> "off"]
    /\ rules = [pc |-> "off"]
    /\ \E files \in SUBSET FileIndices :
         scan = [pc |-> "lock", nFile |-> 0, files |-> files, holder |-> "none",
                 other |-> "idle", seen |-> {}]

SpecScan == InitScan /\ [][ThreadImport_Scan]_vars

\* C33: during the reindex scan the import worker holds cs_main only while it checks
\* for the next block file and resolves its handle; it never holds it while the
\* validator processes a file, between two files or after the scan.
C33_LockOnlyAroundLookup ==
    scan.pc # "off"
        => /\ scan.holder = "import" <=> scan.pc \in {"exists", "getFile"}
           /\ scan.pc \in {"validate", "validating", "lock", "finished", "done"}
                 => scan.holder # "import"

\* another worker has acquired cs_main both during a validation and between two
\* validations, and the scan has gone through two files
C33_Witness ==
    /\ scan.pc = "done"
    /\ scan.nFile = 2
    /\ {"validating", "lock"} \subseteq scan.seen

\* the snapshot files a teardown has written
FeeEstimatesWritten == TimesRun("dumpFeeEstimates") > 0
MempoolWritten == TimesRun("dumpMempool") > 0

\* C34: CoreShutdown writes the fee-estimate file only if startup reached the step that
\* loads the fee estimates, and the mempool snapshot only if persistence is enabled and
\* the import worker finished reloading the mempool with no shutdown requested; after an
\* initialization that failed before, it writes neither.
C34_SnapshotsOnlyOfInitializedModules ==
    /\ [][FeeEstimatesWritten' /\ ~FeeEstimatesWritten => fFeeEstimatesInitialized]_vars
    /\ [][fFeeEstimatesInitialized' /\ ~fFeeEstimatesInitialized
             => pcMain = "afterLoad" /\ pcMain' = "wallet" /\ fLoaded]_vars
    /\ [][MempoolWritten' /\ ~MempoolWritten
             => fDumpMempoolLater /\ args.persistMempool /\ pcImport = "done"]_vars
    /\ [][fDumpMempoolLater' /\ ~fDumpMempoolLater
             => /\ pcImport = "finish" /\ pcImport' = "done"
                /\ args.persistMempool
                /\ ~fRequestShutdown']_vars
    /\ [](~fLoaded => ~FeeEstimatesWritten /\ ~MempoolWritten)
    /\ [](pcImport \in {"idle", "start"} => ~MempoolWritten)

\* a node that started completely and was shut down has written both files
C34_Witness ==
    /\ ret = "true"
    /\ pcImport = "done"
    /\ FeeEstimatesWritten
    /\ MempoolWritten
    /\ ~fFeeEstimatesInitialized

(***************************************************************************)
(* InitParameterInteraction: the rules between the arguments.  An argument *)
(* map is [set, val] as in AppInitParameterInteraction; the value of a     *)
(* boolean argument is the boolean GetBoolArg reads from it.               *)
(***************************************************************************)
\* the arguments the rules test with IsArgSet
RuleFlags == {"bind", "whitebind", "connect", "proxy", "externalip"}
\* the boolean arguments the rules read or set
RuleBools == {"listen", "dnsseed", "upnp", "discover", "listenonion", "blocksonly",
              "whitelistrelay", "whitelistforcerelay", "minimallogging"}
RuleArgs == RuleFlags \cup RuleBools

DEFAULT_LISTEN == TRUE
DEFAULT_BLOCKSONLY == FALSE
DEFAULT_WHITELISTFORCERELAY == TRUE

SoftSetBoolArg(m, k, v) == SoftSetArg(m, k, v)
GetBoolArg(m, k, default) == GetArg(m, k, default)

\* a series of SoftSetBoolArg calls, in order: ks[i] is set to vs[i]
RECURSIVE SoftSetAll(_, _, _)
SoftSetAll(m, ks, vs) ==
    IF ks = <<>> THEN m
    ELSE SoftSetAll(SoftSetBoolArg(m, Head(ks), Head(vs)), Tail(ks), Tail(vs))

RulesAt(p) == rules.pc = p

\* one rule: when cond holds the arguments ks are soft-set to vs
Rule(p, next, cond, ks, vs) ==
    /\ RulesAt(p)
    /\ rules' = [rules EXCEPT
                   !.pc = next,
                   !.mapArgs = IF cond THEN SoftSetAll(@, ks, vs) ELSE @]
    /\ UNCHANGED <<lifeVars, par, cache, net, signal, subsidy, scan>>

\* a -bind rule that leaves -listen alone
InitParameterInteraction_Bind_NoListen ==
    Rule("bind", "whitebind", IsArgSet(rules.mapArgs, "bind"), <<>>, <<>>)

\* if (IsArgSet("-bind")) SoftSetBoolArg("-listen", true);
InitParameterInteraction_Bind ==
    Rule("bind", "whitebind", IsArgSet(rules.mapArgs, "bind"), <<"listen">>, <<TRUE>>)

\* if (IsArgSet("-whitebind")) SoftSetBoolArg("-listen", true);
InitParameterInteraction_WhiteBind ==
    Rule("whitebind", "connect", IsArgSet(rules.mapArgs, "whitebind"),
         <<"listen">>, <<TRUE>>)

\* if (IsArgSet("-connect")) { -dnsseed=0; -listen=0 }
InitParameterInteraction_Connect ==
    Rule("connect", "proxy", IsArgSet(rules.mapArgs, "connect"),
         <<"dnsseed", "listen">>, <<FALSE, FALSE>>)

\* if (IsArgSet("-proxy")) { -listen=0; -upnp=0; -discover=0 }
InitParameterInteraction_Proxy ==
    Rule("proxy", "listen", IsArgSet(rules.mapArgs, "proxy"),
         <<"listen", "upnp", "discover">>, <<FALSE, FALSE, FALSE>>)

\* if (!GetBoolArg("-listen", DEFAULT_LISTEN)) { -upnp=0; -discover=0; -listenonion=0 }
InitParameterInteraction_Listen ==
    Rule("listen", "externalip", ~GetBoolArg(rules.mapArgs, "listen", DEFAULT_LISTEN),
         <<"upnp", "discover", "listenonion">>, <<FALSE, FALSE, FALSE>>)

\* if (IsArgSet("-externalip")) -discover=0
InitParameterInteraction_ExternalIp ==
    Rule("externalip", "blocksonly", IsArgSet(rules.mapArgs, "externalip"),
         <<"discover">>, <<FALSE>>)

\* if (GetBoolArg("-blocksonly", DEFAULT_BLOCKSONLY)) -whitelistrelay=0
InitParameterInteraction_BlocksOnly ==
    Rule("blocksonly", "forcerelay",
         GetBoolArg(rules.mapArgs, "blocksonly", DEFAULT_BLOCKSONLY),
         <<"whitelistrelay">>, <<FALSE>>)

\* if (GetBoolArg("-whitelistforcerelay", DEFAULT_WHITELISTFORCERELAY)) -whitelistrelay=1
InitParameterInteraction_ForceRelay ==
    Rule("forcerelay", "logging",
         GetBoolArg(rules.mapArgs, "whitelistforcerelay", DEFAULT_WHITELISTFORCERELAY),
         <<"whitelistrelay">>, <<TRUE>>)

\* #if defined(__arm__) || defined(__aarch64__) SoftSetBoolArg("-minimallogging", true);
\* gbMinimalLogging = GetBoolArg("-minimallogging", false);
InitParameterInteraction_Logging ==
    /\ RulesAt("logging")
    /\ LET m == IF rules.arm THEN SoftSetBoolArg(rules.mapArgs, "minimallogging", TRUE)
                ELSE rules.mapArgs
       IN rules' = [rules EXCEPT !.pc = "done", !.mapArgs = m,
                                 !.gbMinimalLogging = GetBoolArg(m, "minimallogging", FALSE)]
    /\ UNCHANGED <<lifeVars, par, cache, net, signal, subsidy, scan>>

InitParameterInteraction ==
    \/ InitParameterInteraction_Bind
    \/ InitParameterInteraction_WhiteBind
    \/ InitParameterInteraction_Connect
    \/ InitParameterInteraction_Proxy
    \/ InitParameterInteraction_Listen
    \/ InitParameterInteraction_ExternalIp
    \/ InitParameterInteraction_BlocksOnly
    \/ InitParameterInteraction_ForceRelay
    \/ InitParameterInteraction_Logging

\* the values a user gives the boolean arguments, when given
RuleValues(k) ==
    CASE k = "listen"              -> BOOLEAN
      [] k = "whitelistrelay"      -> BOOLEAN
      [] k = "whitelistforcerelay" -> {FALSE}
      [] OTHER                     -> {TRUE}

\* the command lines: any set of the arguments, each boolean one with any of its values
RuleUserArgs ==
    {[set |-> S,
      val |-> [k \in RuleArgs |->
                 IF k \notin S THEN FALSE
                 ELSE IF k = "listen" THEN l
                 ELSE IF k = "whitelistrelay" THEN w
                 ELSE CHOOSE x \in RuleValues(k) : TRUE]] :
        S \in SUBSET (RuleArgs \ {"dnsseed", "listenonion", "minimallogging"}),
        l \in RuleValues("listen"), w \in RuleValues("whitelistrelay")}

InitRules ==
    /\ LifeIdle
    /\ TestsIdle
    /\ par = [pc |-> "off"]
    /\ cache = [pc |-> "off"]
    /\ net = [pc |-> "off"]
    /\ scan = [pc |-> "off"]
    /\ \E m \in RuleUserArgs, arm \in BOOLEAN :
         rules = [pc |-> "bind", user |-> m, mapArgs |-> m, arm |-> arm,
                  gbMinimalLogging |-> FALSE]

SpecRules == InitRules /\ [][InitParameterInteraction]_vars

\* C35: when -bind or -whitebind is given and the user did not give -listen, -listen
\* resolves to true, also when -connect or -proxy is given, whatever the other options.
C35_BindImpliesListen ==
    (/\ rules.pc \notin {"off", "bind", "whitebind"}
     /\ IsArgSet(rules.user, "bind") \/ IsArgSet(rules.user, "whitebind")
     /\ ~IsArgSet(rules.user, "listen"))
        => /\ IsArgSet(rules.mapArgs, "listen")
           /\ GetBoolArg(rules.mapArgs, "listen", DEFAULT_LISTEN)

\* -bind with -connect and -proxy, no -listen: the rules have run and -listen is on
C35_Witness ==
    /\ rules.pc = "done"
    /\ rules.user.set = {"bind", "connect", "proxy"}
    /\ rules.mapArgs.val["listen"]
    /\ ~rules.mapArgs.val["dnsseed"]
    /\ {"listen", "dnsseed", "upnp", "discover"} \subseteq rules.mapArgs.set

\* C36: whenever AppInitParameterInteraction succeeds the resolved connection ceiling
\* is not negative, whatever the user asked for and whatever number of descriptors, at
\* or above the reserved floor, the raise of the limit returned.
C36_CeilingNotNegative ==
    (par.pc = "done" /\ par.result = "true") => par.nMaxConnections >= 0

\* C37: when a shutdown is requested while AppInitMain waits for genesis, AppInitMain
\* eventually stops waiting and returns, or the process has ended.
C37_WaitEndsOnShutdown ==
    (MainAt("waitGenesis") /\ fRequestShutdown)
        ~> (pcMain = "returned" \/ procState # "running")

\* the call of CoreShutdown by thread t took the lock, performed its steps and returned
RanToCompletion(t) ==
    /\ pcSh[t] = "idle"
    /\ \E i \in 1..Len(log) : log[i].call = callId[t]

\* C38: once one call of CoreShutdown has run to completion, no later call performs a
\* teardown step.
C38_NothingAfterCompletion ==
    [][(\E t \in ShutdownThreads : RanToCompletion(t)) => log' = log]_vars

(***************************************************************************)
(* The lifecycle on every data directory and command line, with one caller *)
(* of CoreShutdown and the main thread scheduled fairly.                   *)
(***************************************************************************)
InitLoad ==
    /\ Init
    /\ callers = {"t1"}

SpecLoad == InitLoad /\ [][Next]_vars /\ WF_vars(AppInitMain)

\* the main thread is inside while (!fLoaded) { ... }
InLoadLoop ==
    pcMain \in {"while", "loadblockindex", "newMain", "delWit", "newWit", "reindexOrUpgrade",
                "upgradeResync", "loadIndex", "upgradeIndex", "genesis", "initIndex",
                "txindex", "prune", "rewind", "future", "verify", "failed"}

\* goto loadblockindex
JumpsBack == pcMain \in {"upgradeResync", "upgradeIndex"} /\ pcMain' = "loadblockindex"

\* C39: store loading terminates.  The jump back to loadblockindex is taken at most
\* once per process, the loop starts at most two attempts, so the stores are built at
\* most three times, and the loop is left: loading finishes or AppInitMain returns
\* (or the process has ended).
C39_StoreLoadingTerminates ==
    /\ [](attempts <= 2 /\ creations <= attempts + 1)
    /\ [][JumpsBack => (upgradeOnceOnly /\ ~upgradeOnceOnly')]_vars
    /\ [][~upgradeOnceOnly => ~upgradeOnceOnly' /\ ~JumpsBack]_vars
    /\ InLoadLoop ~> (~InLoadLoop \/ procState # "running")

\* two attempts and one jump back: the stores were built three times, and loading is over
C39_Witness ==
    /\ attempts = 2
    /\ creations = 3
    /\ ~upgradeOnceOnly
    /\ ~InLoadLoop
    /\ pcMain # "step4a"

(***************************************************************************)
(* AppInitMain step 7, the stores of one load attempt: at loadblockindex    *)
(* the block-index store, the chain-state store and the witness chain-state *)
(* store are opened with the sizes computed before the loop, and            *)
(* nCoinCacheUsage stays what the computation left.                         *)
(***************************************************************************)
\* how many times the load loop may open the stores in one start
MaxAttempts == 2

\* the cache size each constructor at loadblockindex is given
OpenStores(o) ==
    [pblocktree     |-> o.nBlockTreeDBCache,
     pcoinsdbview   |-> o.nCoinDBCache,
     ppow2witdbview |-> o.nCoinDBCache,
     nCoinCacheUsage |-> o.nCoinCacheUsage]

\* one pass through loadblockindex in each of the two starts
LoadLoop_OpenStores ==
    /\ cache.pc \in {"done", "opened"}
    /\ LET n == IF cache.pc = "done" THEN 0 ELSE cache.attempt
       IN  /\ n < MaxAttempts
           /\ cache' = [pc |-> "opened",
                        dbcacheSet |-> cache.dbcacheSet,
                        dbcache |-> cache.dbcache,
                        txindex |-> cache.txindex,
                        maxmempoolSet |-> cache.maxmempoolSet,
                        maxmempool |-> cache.maxmempool,
                        out |-> cache.out,
                        attempt |-> n + 1,
                        stores |-> [i \in 1..2 |-> OpenStores(cache.out[i])]]
    /\ UNCHANGED <<lifeVars, par, net, signal, subsidy, scan, rules>>

SpecStores == InitCache /\ [][AppInitMain_CacheSizes \/ LoadLoop_OpenStores]_vars

\* C40: in every load attempt the sizes handed to the block-index store, the chain-state
\* store and the witness chain-state store, plus the in-memory state cache, do not
\* together exceed the clamped total cache budget.
C40_StoresWithinBudget ==
    cache.pc = "opened" =>
        \A i \in 1..2 :
            LET s == cache.stores[i]
            IN  s.pblocktree + s.pcoinsdbview + s.ppow2witdbview + s.nCoinCacheUsage
                    <= cache.out[i].nTotalCache

=============================================================================
